---- MODULE Spec2Model ----
(***************************************************************************)
(* Tiered conversational memory (short-term, long-term, episodic,          *)
(* semantic, procedural), the context pipeline with its read-through       *)
(* cache, and the after-turn persistence protocol.                         *)
(*                                                                         *)
(* Every coroutine is modelled one await at a time: an action is the code  *)
(* that runs between two awaits of the asyncio event loop, so the          *)
(* interleavings of the model are the interleavings of the program.        *)
(***************************************************************************)
EXTENDS Integers, Sequences, FiniteSets, TLC

(***************************************************************************)
(* Bounds of the model                                                     *)
(***************************************************************************)
MaxPre == 13          \* longest short-term record present before the first turn
MaxTurns == 2         \* serialized turns in one behaviour
MaxFaultTurns == 1    \* turns in one behaviour with failing backends
MaxPending == 2       \* pending procedures handed to one after_turn
MaxTicks == 3         \* clock ticks in one behaviour
MaxSmallCfg == 3      \* largest of the small configuration values tried
MaxConcTurns == 3     \* turns in one behaviour of two concurrent coroutines
MaxSavingPending == 1 \* pending procedures of a turn that runs beside a build
MaxParts == 3         \* parts handed to one apply_context_compaction

Procs == {1, 2}
Users == {"u1", "u2"}
Sessions == {"s1", "s2"}
Texts == {"m1", "m2"}
ProcNames == {"n1", "n2"}

(***************************************************************************)
(* Program constants                                                       *)
(***************************************************************************)
DefaultOffloadThreshold == 12
DefaultOffloadKeepRecent == 5
DefaultMaxMessages == 20
DefaultShortTermTtl == 1800
DefaultCacheTtl == 60
DefaultLongTermMaxItems == 5
DefaultProcedureMaxItems == 10
ShortTermSaveCap == 20
DefaultShortTermRecentN == 3
DefaultCompactionMaxCharsPerPart == 2800
DefaultCompactionMaxTotalChars == 9000
DefaultFactsLimit == 50
MessageHashLength == 16

\* the step of the clock: half the default cache TTL
TickSeconds == DefaultCacheTtl \div 2

(***************************************************************************)
(* Python list slicing                                                     *)
(***************************************************************************)
Min(a, b) == IF a < b THEN a ELSE b
Max(a, b) == IF a > b THEN a ELSE b

\* a slice index as Python normalises it against a list of length n
SliceIndex(i, n) == IF i < 0 THEN Max(i + n, 0) ELSE Min(i, n)

\* s[a:]
SliceFrom(s, a) == SubSeq(s, SliceIndex(a, Len(s)) + 1, Len(s))

\* s[:b]
SliceTo(s, b) == SubSeq(s, 1, SliceIndex(b, Len(s)))

\* s[-n:]  (note -0 = 0, so n = 0 gives the whole list)
LastN(s, n) == SliceFrom(s, 0 - n)

\* s[:-n]  (n = 0 gives the empty list)
AllButLastN(s, n) == SliceTo(s, 0 - n)

Range(s) == {s[i] : i \in 1..Len(s)}

(***************************************************************************)
(* Strings and apply_context_compaction                                    *)
(***************************************************************************)
\* a string is the sequence of its characters, a character its code point
Newline == 10

\* sep.join(strings)
RECURSIVE Join(_, _)
Join(sep, strings) ==
    IF strings = <<>> THEN <<>>
    ELSE IF Len(strings) = 1 THEN strings[1]
    ELSE strings[1] \o sep \o Join(sep, Tail(strings))

\* line 16: what the tail leaves free for the current user message
CompactionMargin == 100

\* lines 12-13
JoinedTruncated(context_parts, max_chars_per_part) ==
    Join(<<Newline, Newline>>,
         [i \in 1..Len(context_parts) |->
             SliceTo(context_parts[i], max_chars_per_part)])

\* a compaction that cuts the joined text at its head in every case
ApplyContextCompactionKeepsHead(context_parts, max_chars_per_part, max_total_chars) ==
    SliceTo(JoinedTruncated(context_parts, max_chars_per_part), max_total_chars)

\* a compaction whose tail is the whole budget, without the margin
ApplyContextCompactionNoMargin(context_parts, max_chars_per_part, max_total_chars) ==
    LET joined == JoinedTruncated(context_parts, max_chars_per_part)
    IN  IF Len(joined) <= max_total_chars THEN joined
        ELSE IF max_total_chars <= 0 THEN SliceTo(joined, max_total_chars)
        ELSE SliceFrom(joined, 0 - (max_total_chars + 1))

\* apply_context_compaction, lines 12-19
ApplyContextCompaction(context_parts, max_chars_per_part, max_total_chars) ==
    LET joined == JoinedTruncated(context_parts, max_chars_per_part)
        target == max_total_chars - CompactionMargin
    IN  IF Len(joined) <= max_total_chars THEN joined
        ELSE IF target <= 0 THEN SliceTo(joined, max_total_chars)
        ELSE IF Len(joined) > target THEN SliceFrom(joined, 0 - target)
        ELSE joined

NoCompaction == [context_parts |-> <<>>, max_chars_per_part |-> 0,
                 max_total_chars |-> 0, called |-> FALSE, result |-> <<>>]

(***************************************************************************)
(* Data                                                                    *)
(***************************************************************************)
\* a message of the conversation; the turn number stands for its content
UserMsg(t) == [role |-> "user", turn |-> t]
AsstMsg(t) == [role |-> "assistant", turn |-> t]
\* the i-th message of a record that predates the behaviour
OldMsg(i) == [role |-> IF i % 2 = 1 THEN "user" ELSE "assistant", turn |-> 0 - i]
OldMessages(n) == [i \in 1..n |-> OldMsg(i)]

\* Redis holds no value for the key
NoRecord == [present |-> FALSE, messages |-> <<>>, last_intent |-> 0,
             expires |-> 0]

VARIABLES
    config,      \* ContextConfig and ShortTermMemoryConfig of the process
    env,         \* the environment: may backends fail, how many turns arrive,
                 \* with which messages and queued procedures, whose agent
                 \* run returns, has the memory object an offload_context,
                 \* are the ages of cache hits recorded
    now,         \* the wall clock
    nextTurn,    \* number of the next turn
    shortTerm,   \* Redis: session_id -> session record
    offloaded,   \* Mongo: offload chunks, in insertion order
    ltDurable,   \* Mongo: long-term turn records
    ltSearch,    \* mem0: search-index entries
    ltConn,      \* LongTermMemory._mongo_client / ._mem0 are set
    episodes,    \* Mongo: episodes
    facts,       \* mem0: facts
    procStore,   \* Mongo: procedure documents
    cache,       \* Redis: context cache, key -> entry
    pc,          \* per coroutine: where it is suspended
    turn,        \* per coroutine: arguments and locals of the turn
    calls,       \* per coroutine: the memory calls after_turn made, in order
    lt,          \* per coroutine: frame of LongTermMemory.save
    lastSave,    \* history: per session, the last successful short-term save
    bld,         \* per coroutine: frame of ContextPipeline.build
    built,       \* history: the builds that have returned, in order of return
    ver,         \* history: procedure saves of after_turn and invalidations
    compacted    \* a call of apply_context_compaction: arguments and result

vars == <<config, env, now, nextTurn, shortTerm, offloaded, ltDurable,
          ltSearch, ltConn, episodes, facts, procStore, cache, pc, turn,
          calls, lt, lastSave, bld, built, ver, compacted>>

stores == <<shortTerm, offloaded, ltDurable, ltSearch, ltConn, episodes, facts,
            procStore, cache, lastSave, bld, built, ver>>

\* the stores an action on one store leaves alone
exceptShortTerm == <<offloaded, ltDurable, ltSearch, ltConn, episodes, facts,
                     procStore, cache,
                   bld, built, ver>>
exceptOffloaded == <<shortTerm, ltDurable, ltSearch, ltConn, episodes, facts,
                     procStore, cache, lastSave,
                   bld, built, ver>>
exceptLtDurable == <<shortTerm, offloaded, ltSearch, ltConn, episodes, facts,
                     procStore, cache, lastSave,
                   bld, built, ver>>
exceptLtSearch == <<shortTerm, offloaded, ltDurable, ltConn, episodes, facts,
                    procStore, cache, lastSave,
                   bld, built, ver>>
exceptLtConn == <<shortTerm, offloaded, ltDurable, ltSearch, episodes, facts,
                  procStore, cache, lastSave,
                   bld, built, ver>>
exceptEpisodes == <<shortTerm, offloaded, ltDurable, ltSearch, ltConn, facts,
                    procStore, cache, lastSave,
                   bld, built, ver>>
exceptFacts == <<shortTerm, offloaded, ltDurable, ltSearch, ltConn, episodes,
                 procStore, cache, lastSave,
                   bld, built, ver>>
exceptProcStore == <<shortTerm, offloaded, ltDurable, ltSearch, ltConn, episodes,
                     facts, cache, lastSave,
                   bld, built>>
exceptCache == <<shortTerm, offloaded, ltDurable, ltSearch, ltConn, episodes,
                 facts, procStore, lastSave,
                   bld, built>>

(***************************************************************************)
(* ShortTermMemory (Redis)                                                 *)
(***************************************************************************)
\* the payload save() writes for data = {messages, current_conversation_state}
ShortTermPayload(messages, intent) ==
    [present |-> TRUE,
     messages |-> LastN(messages, config.max_messages),
     last_intent |-> intent,
     expires |-> now + config.short_term_ttl]

\* get(): the record, or None when the key is missing or has expired
ShortTermGet(s) ==
    IF shortTerm[s].present /\ now < shortTerm[s].expires
    THEN shortTerm[s] ELSE NoRecord

NoSave == [turn |-> 0, messages |-> <<>>]

\* saved[u]: successful add_procedure calls of after_turn for user u so far;
\* mine[p]: the number of coroutine p's latest one; invalidated[u]: the
\* highest of them whose on_procedure_saved has deleted the cache entry
NoVersions == [saved |-> [u \in Users |-> 0],
               invalidated |-> [u \in Users |-> 0],
               mine |-> [p \in Procs |-> 0]]

(***************************************************************************)
(* after_turn                                                              *)
(***************************************************************************)
NoTurn == [user |-> "u1", session |-> "s1", text |-> "m1", id |-> 0,
           before |-> NoRecord, new_messages |-> <<>>, to_offload |-> <<>>,
           to_save |-> <<>>, pending |-> <<>>, k |-> 1, error |-> "none"]

\* the frame of LongTermMemory.save; warned: it logged
\* long_term_mem0_save_failed
NoFrame == [pc |-> "none", user |-> "u1", session |-> "s1", messages |-> <<>>,
            intent_history |-> <<>>, call |-> 0, warned |-> FALSE]

\* lines 33-36: the pre-turn messages plus the user and the assistant message
NewMessages(before, t) == before.messages \o <<UserMsg(t), AsstMsg(t)>>

\* line 39: does this turn offload
OffloadTriggered(new_messages) ==
    config.offload_enabled /\ Len(new_messages) > config.offload_message_threshold

\* an offload that archives the whole extended list, the kept messages too
ToOffloadWhole(new_messages) ==
    IF OffloadTriggered(new_messages) THEN new_messages ELSE <<>>

\* line 40
ToOffload(new_messages) ==
    IF OffloadTriggered(new_messages)
    THEN AllButLastN(new_messages, config.offload_keep_recent)
    ELSE <<>>

\* the save that forgets line 43 and keeps the last 20 also when offloading
MessagesToSaveNoTrim(new_messages) == LastN(new_messages, ShortTermSaveCap)

\* the save that forgets line 38 and hands over the whole extended list
\* when nothing is offloaded
MessagesToSaveNoCap(new_messages) ==
    IF OffloadTriggered(new_messages)
    THEN LastN(new_messages, config.offload_keep_recent)
    ELSE new_messages

\* the save whose line 43 keeps the whole extended list after an offload
MessagesToSaveKeepsAll(new_messages) ==
    IF OffloadTriggered(new_messages)
    THEN new_messages
    ELSE LastN(new_messages, ShortTermSaveCap)

\* lines 38-43
MessagesToSave(new_messages) ==
    IF OffloadTriggered(new_messages)
    THEN LastN(new_messages, config.offload_keep_recent)
    ELSE LastN(new_messages, ShortTermSaveCap)

\* name lists the agent's tool may queue in a turn: any names, or the
\* two names in turn
AnyNames(n) == UNION {[1..k -> ProcNames] : k \in 0..n}
AlternatingNames(n) ==
    {[i \in 1..k |-> IF i % 2 = 1 THEN "n1" ELSE "n2"] : k \in 0..n}

\* the procedures the agent's tool queued during turn t: the names it chose,
\* each with steps of its own
PendingProcedures(names, t) ==
    [i \in 1..Len(names) |-> [name |-> names[i], steps |-> <<t, i>>]]

Called(p, entry) == calls' = [calls EXCEPT ![p] = Append(@, entry)]

\* after_turn is entered with the snapshot the build of this turn returned;
\* it runs up to its first await
AfterTurnEnter(p, t, u, s, text, before, pending) ==
    LET nm == NewMessages(before, t)
    IN  /\ turn' = [turn EXCEPT ![p] =
              [user |-> u, session |-> s, text |-> text, id |-> t,
               before |-> before, new_messages |-> nm,
               to_offload |-> ToOffload(nm), to_save |-> MessagesToSave(nm),
               pending |-> pending, k |-> 1, error |-> "none"]]
        /\ pc' = [pc EXCEPT ![p] =
              IF ToOffload(nm) # <<>> THEN "offload" ELSE "save_short_term"]
        /\ calls' = [calls EXCEPT ![p] = <<>>]

\* a serialized turn: the snapshot is the record the store holds now
StartTurn(p) ==
    /\ pc[p] \in {"idle", "done", "raised"}
    /\ nextTurn <= env.max_turns
    /\ \E names \in env.pending :
          AfterTurnEnter(p, nextTurn, "u1", "s1", "m1", ShortTermGet("s1"),
                         PendingProcedures(names, nextTurn))
    /\ nextTurn' = nextTurn + 1
    /\ UNCHANGED <<config, env, compacted, now, stores, lt>>

\* line 42, memory.offload_context -> offload_messages: one chunk is inserted
OffloadOk(p) ==
    /\ pc[p] = "offload"
    /\ env.offloads
    /\ offloaded' = Append(offloaded,
          [user_id |-> turn[p].user, session_id |-> turn[p].session,
           messages |-> turn[p].to_offload,
           message_count |-> Len(turn[p].to_offload),
           turn |-> turn[p].id])
    /\ Called(p, [op |-> "offload_context", ok |-> TRUE, k |-> 0])
    /\ pc' = [pc EXCEPT ![p] = "save_short_term"]
    /\ UNCHANGED <<config, env, compacted, now, nextTurn, exceptOffloaded, turn, lt>>

\* offload_messages catches the failed insert and returns
OffloadFail(p) ==
    /\ pc[p] = "offload"
    /\ env.offloads
    /\ env.faults
    /\ Called(p, [op |-> "offload_context", ok |-> FALSE, k |-> 0])
    /\ pc' = [pc EXCEPT ![p] = "save_short_term"]
    /\ UNCHANGED <<config, env, compacted, now, nextTurn, stores, turn, lt>>

\* line 42 with a MemoryManager, which has no offload_context: the attribute
\* lookup raises AttributeError, which nothing in after_turn catches
OffloadMissing(p) ==
    /\ pc[p] = "offload"
    /\ ~env.offloads
    /\ Called(p, [op |-> "offload_context", ok |-> FALSE, k |-> 0])
    /\ turn' = [turn EXCEPT ![p].error = "no_offload_context"]
    /\ pc' = [pc EXCEPT ![p] = "raised"]
    /\ UNCHANGED <<config, env, compacted, now, nextTurn, stores, lt>>

\* a save that appends the turn's pair to the record Redis holds now
SaveShortTermOkMerging(p) ==
    /\ pc[p] = "save_short_term"
    /\ shortTerm' = [shortTerm EXCEPT ![turn[p].session] =
          ShortTermPayload(ShortTermGet(turn[p].session).messages
                             \o LastN(turn[p].to_save, 2), turn[p].id)]
    /\ lastSave' = [lastSave EXCEPT ![turn[p].session] =
          [turn |-> turn[p].id, messages |-> turn[p].to_save]]
    /\ Called(p, [op |-> "save_short_term", ok |-> TRUE, k |-> 0])
    /\ pc' = [pc EXCEPT ![p] = "save_long_term"]
    /\ UNCHANGED <<config, env, compacted, now, nextTurn, exceptShortTerm, turn, lt>>

\* lines 45-52 with ShortTermMemory.save: the record is replaced
SaveShortTermOk(p) ==
    /\ pc[p] = "save_short_term"
    /\ shortTerm' = [shortTerm EXCEPT ![turn[p].session] =
          ShortTermPayload(turn[p].to_save, turn[p].id)]
    /\ lastSave' = [lastSave EXCEPT ![turn[p].session] =
          [turn |-> turn[p].id, messages |-> turn[p].to_save]]
    /\ Called(p, [op |-> "save_short_term", ok |-> TRUE, k |-> 0])
    /\ pc' = [pc EXCEPT ![p] = "save_long_term"]
    /\ UNCHANGED <<config, env, compacted, now, nextTurn, exceptShortTerm, turn, lt>>

\* a failed short-term save that is swallowed instead of raised
SaveShortTermFailSwallowed(p) ==
    /\ pc[p] = "save_short_term"
    /\ env.faults
    /\ Called(p, [op |-> "save_short_term", ok |-> FALSE, k |-> 0])
    /\ pc' = [pc EXCEPT ![p] = "save_long_term"]
    /\ UNCHANGED <<config, env, compacted, now, nextTurn, stores, turn, lt>>

\* Redis fails: ShortTermMemoryError -> MemoryWriteError leaves after_turn
SaveShortTermFail(p) ==
    /\ pc[p] = "save_short_term"
    /\ env.faults
    /\ Called(p, [op |-> "save_short_term", ok |-> FALSE, k |-> 0])
    /\ turn' = [turn EXCEPT ![p].error = "short_term_write"]
    /\ pc' = [pc EXCEPT ![p] = "raised"]
    /\ UNCHANGED <<config, env, compacted, now, nextTurn, stores, lt>>

(***************************************************************************)
(* LongTermMemory.save, one await at a time                                *)
(***************************************************************************)
\* _content_to_string: text stays, a dict becomes its JSON text
ContentToString(m) ==
    IF m.role = "user" THEN <<"text", m.turn>> ELSE <<"json", m.turn>>

\* lines 216-220: the messages that have a role, content as a string
MessagesForMem0(messages) ==
    LET keep == {i \in 1..Len(messages) : messages[i].role # "none"}
        F[i \in 0..Len(messages)] ==
            IF i = 0 THEN <<>>
            ELSE IF i \in keep
                 THEN Append(F[i - 1], [role |-> messages[i].role,
                                        content |-> ContentToString(messages[i])])
                 ELSE F[i - 1]
    IN  F[Len(messages)]

\* a save that has no early return for an empty list
LongTermSaveEnterNoEmptyCheck(p, u, s, messages, ih, call) ==
    lt' = [lt EXCEPT ![p] =
        [pc |-> "ensure_mongo",
         user |-> u, session |-> s, messages |-> messages,
         intent_history |-> ih, call |-> call, warned |-> FALSE]]

\* lines 172-173: save(user_id, session_id, messages, intent_history=...) is
\* entered and returns at once when messages is empty
LongTermSaveEnter(p, u, s, messages, ih, call) ==
    lt' = [lt EXCEPT ![p] =
        [pc |-> IF messages = <<>> THEN "returned" ELSE "ensure_mongo",
         user |-> u, session |-> s, messages |-> messages,
         intent_history |-> ih, call |-> call, warned |-> FALSE]]

\* lines 137-146: the client is there, or the ping succeeds and it is kept
LTEnsureMongoOk(p) ==
    /\ lt[p].pc = "ensure_mongo"
    /\ ltConn' = [ltConn EXCEPT !.mongo = TRUE]
    /\ lt' = [lt EXCEPT ![p].pc = "insert_one"]
    /\ UNCHANGED <<config, env, compacted, now, nextTurn, exceptLtConn, pc, turn, calls>>

\* a failed ping after which save returns as if nothing had happened
LTEnsureMongoFailReturns(p) ==
    /\ lt[p].pc = "ensure_mongo"
    /\ env.faults
    /\ ~ltConn.mongo
    /\ lt' = [lt EXCEPT ![p].pc = "returned"]
    /\ UNCHANGED <<config, env, compacted, now, nextTurn, stores, pc, turn, calls>>

\* lines 147-150, 182-189: the ping fails, save raises LongTermMemoryError
LTEnsureMongoFail(p) ==
    /\ lt[p].pc = "ensure_mongo"
    /\ env.faults
    /\ ~ltConn.mongo
    /\ lt' = [lt EXCEPT ![p].pc = "raised"]
    /\ UNCHANGED <<config, env, compacted, now, nextTurn, stores, pc, turn, calls>>

\* after the durable insert: project to mem0 when a message has a role
AfterInsert(p) ==
    IF MessagesForMem0(lt[p].messages) # <<>> THEN "ensure_mem0" ELSE "returned"

\* lines 191-204: insert_one succeeds
LTInsertOk(p) ==
    /\ lt[p].pc = "insert_one"
    /\ ltDurable' = Append(ltDurable,
          [user_id |-> lt[p].user, session_id |-> lt[p].session,
           messages |-> lt[p].messages,
           intent_history |-> lt[p].intent_history,
           created_at |-> now, call |-> lt[p].call])
    /\ lt' = [lt EXCEPT ![p].pc = AfterInsert(p)]
    /\ UNCHANGED <<config, env, compacted, now, nextTurn, exceptLtDurable, pc, turn, calls>>

\* a failed insert that is only logged: save goes on to the search index
LTInsertFailContinues(p) ==
    /\ lt[p].pc = "insert_one"
    /\ env.faults
    /\ lt' = [lt EXCEPT ![p].pc = AfterInsert(p)]
    /\ UNCHANGED <<config, env, compacted, now, nextTurn, stores, pc, turn, calls>>

\* lines 205-212: insert_one fails, save raises LongTermMemoryError
LTInsertFail(p) ==
    /\ lt[p].pc = "insert_one"
    /\ env.faults
    /\ lt' = [lt EXCEPT ![p].pc = "raised"]
    /\ UNCHANGED <<config, env, compacted, now, nextTurn, stores, pc, turn, calls>>

\* lines 152-156: mem0 is there, or is created and kept
LTEnsureMem0Ok(p) ==
    /\ lt[p].pc = "ensure_mem0"
    /\ ltConn' = [ltConn EXCEPT !.mem0 = TRUE]
    /\ lt' = [lt EXCEPT ![p].pc = "mem0_add"]
    /\ UNCHANGED <<config, env, compacted, now, nextTurn, exceptLtConn, pc, turn, calls>>

\* lines 157-159, 236-238: mem0 cannot be created; logged, save returns
LTEnsureMem0Fail(p) ==
    /\ lt[p].pc = "ensure_mem0"
    /\ env.faults
    /\ ~ltConn.mem0
    /\ lt' = [lt EXCEPT ![p].pc = "returned", ![p].warned = TRUE]
    /\ UNCHANGED <<config, env, compacted, now, nextTurn, stores, pc, turn, calls>>

\* lines 224-235: the projection of the turn is added to the search index
LTMem0AddOk(p) ==
    /\ lt[p].pc = "mem0_add"
    /\ ltSearch' = Append(ltSearch,
          [user_id |-> lt[p].user, session_id |-> lt[p].session,
           messages |-> MessagesForMem0(lt[p].messages),
           intent_history |-> lt[p].intent_history,
           call |-> lt[p].call])
    /\ lt' = [lt EXCEPT ![p].pc = "returned"]
    /\ UNCHANGED <<config, env, compacted, now, nextTurn, exceptLtSearch, pc, turn, calls>>

\* a failed mem0.add that leaves save as an error
LTMem0AddFailRaises(p) ==
    /\ lt[p].pc = "mem0_add"
    /\ env.faults
    /\ lt' = [lt EXCEPT ![p].pc = "raised", ![p].warned = TRUE]
    /\ UNCHANGED <<config, env, compacted, now, nextTurn, stores, pc, turn, calls>>

\* lines 236-238: mem0.add fails; logged, save returns
LTMem0AddFail(p) ==
    /\ lt[p].pc = "mem0_add"
    /\ env.faults
    /\ lt' = [lt EXCEPT ![p].pc = "returned", ![p].warned = TRUE]
    /\ UNCHANGED <<config, env, compacted, now, nextTurn, stores, pc, turn, calls>>

LongTermSave(p) ==
    \/ LTEnsureMongoOk(p) \/ LTEnsureMongoFail(p)
    \/ LTInsertOk(p) \/ LTInsertFail(p)
    \/ LTEnsureMem0Ok(p) \/ LTEnsureMem0Fail(p)
    \/ LTMem0AddOk(p) \/ LTMem0AddFail(p)

(***************************************************************************)
(* ProceduralMemory (Mongo)                                                *)
(***************************************************************************)
\* str.strip() on the names of the model
Strip(x) ==
    CASE x = " n1 " -> "n1"
      [] x = " f1 " -> "f1"
      [] x = " u1 " -> "u1"
      [] x = " "    -> ""
      [] OTHER      -> x

NoDoc == [id |-> <<0, 0>>, user_id |-> "", name |-> "", steps |-> <<>>,
          description |-> "", conditions |-> <<>>, created_at |-> 0,
          updated_at |-> 0]

\* the documents update_one's filter {user_id, name} matches
Matching(store, u, name) ==
    {d \in store : d.user_id = Strip(u) /\ d.name = Strip(name)}

\* an upsert that puts created_at under $set
UpsertIntoResetsCreatedAt(store, d, u, name, steps, description, conditions, id, ts) ==
    IF Matching(store, u, name) = {}
    THEN store \cup {[id |-> id, user_id |-> Strip(u), name |-> Strip(name),
                      steps |-> steps, description |-> description,
                      conditions |-> conditions,
                      created_at |-> ts, updated_at |-> ts]}
    ELSE (store \ {d}) \cup
         {[d EXCEPT !.steps = steps, !.description = description,
                    !.conditions = conditions, !.created_at = ts,
                    !.updated_at = ts]}

\* lines 82-100: update_one(filter, {$set, $setOnInsert}, upsert=True) applied
\* to the matched document d, or inserting when nothing matches
UpsertInto(store, d, u, name, steps, description, conditions, id, ts) ==
    IF Matching(store, u, name) = {}
    THEN store \cup {[id |-> id, user_id |-> Strip(u), name |-> Strip(name),
                      steps |-> steps, description |-> description,
                      conditions |-> conditions,
                      created_at |-> ts, updated_at |-> ts]}
    ELSE (store \ {d}) \cup
         {[d EXCEPT !.steps = steps, !.description = description,
                    !.conditions = conditions, !.updated_at = ts]}

\* the document update_one picks: any one of the matching documents
UpsertTargets(store, u, name) ==
    IF Matching(store, u, name) = {} THEN {NoDoc} ELSE Matching(store, u, name)

\* lines 66-67: user_id and name are required
ValidProcedureArgs(u, name) == Strip(u) # "" /\ Strip(name) # ""

(***************************************************************************)
(* ContextCache (Redis)                                                    *)
(***************************************************************************)
\* message_hash: the first 16 hex digits of the SHA-256 of the text
MessageHash(text) ==
    CASE text = "m1" -> "9d3b0c1e5a7f2468"
      [] text = "m2" -> "41c7e2a09b5d8f13"
      [] OTHER       -> "e3b0c44298fc1c14"

\* _key: "ctx:" prefix ":" parts joined by ":"
CacheKey(prefix, parts) == <<"ctx", prefix>> \o parts

\* an "lt" key without the user: one entry per message text
LtKeyWithoutUser(u, text) == CacheKey("lt", <<"u1", MessageHash(text)>>)

\* build, lines 53-64: the key of the relevant-history entry
LtKey(u, text) == CacheKey("lt", <<u, MessageHash(text)>>)
ProcKey(u) == CacheKey("proc", <<u>>)

CacheKeys == {LtKey(u, m) : u \in Users, m \in Texts} \cup {ProcKey(u) : u \in Users}

NoEntry == [present |-> FALSE, value |-> <<>>, expires |-> 0, writer |-> 0,
            as_of |-> 0, fetched_at |-> 0]

\* a lookup over keys that never expire
CacheLookupNoExpiry(k) ==
    IF cache[k].present THEN cache[k] ELSE NoEntry

\* redis.get: the value, unless the key is missing or its TTL has run out
CacheLookup(k) ==
    IF cache[k].present /\ now < cache[k].expires THEN cache[k] ELSE NoEntry

(***************************************************************************)
(* after_turn, continued                                                   *)
(***************************************************************************)
\* a long-term save that is handed the whole extended message list
SaveLongTermCallWholeHistory(p) ==
    /\ pc[p] = "save_long_term"
    /\ LongTermSaveEnter(p, turn[p].user, turn[p].session,
                         turn[p].new_messages,
                         <<<<turn[p].text, turn[p].id>>>>, turn[p].id)
    /\ pc' = [pc EXCEPT ![p] = "await_long_term"]
    /\ UNCHANGED <<config, env, compacted, now, nextTurn, stores, turn, calls>>

\* lines 53-65 with MemoryManager.save_long_term: the turn's message pair is
\* non-empty, so LongTermMemory.save is entered
SaveLongTermCall(p) ==
    /\ pc[p] = "save_long_term"
    /\ LongTermSaveEnter(p, turn[p].user, turn[p].session,
                         <<UserMsg(turn[p].id), AsstMsg(turn[p].id)>>,
                         <<<<turn[p].text, turn[p].id>>>>, turn[p].id)
    /\ pc' = [pc EXCEPT ![p] = "await_long_term"]
    /\ UNCHANGED <<config, env, compacted, now, nextTurn, stores, turn, calls>>

\* save returned: go on to the best-effort writes
SaveLongTermReturn(p) ==
    /\ pc[p] = "await_long_term"
    /\ lt[p].pc = "returned"
    /\ Called(p, [op |-> "save_long_term", ok |-> TRUE, k |-> 0])
    /\ lt' = [lt EXCEPT ![p].pc = "none"]
    /\ pc' = [pc EXCEPT ![p] = "add_episode"]
    /\ UNCHANGED <<config, env, compacted, now, nextTurn, stores, turn>>

\* save raised: LongTermMemoryError -> MemoryWriteError leaves after_turn
SaveLongTermRaise(p) ==
    /\ pc[p] = "await_long_term"
    /\ lt[p].pc = "raised"
    /\ Called(p, [op |-> "save_long_term", ok |-> FALSE, k |-> 0])
    /\ lt' = [lt EXCEPT ![p].pc = "none"]
    /\ turn' = [turn EXCEPT ![p].error = "long_term_write"]
    /\ pc' = [pc EXCEPT ![p] = "raised"]
    /\ UNCHANGED <<config, env, compacted, now, nextTurn, stores>>

\* lines 67-73
AddEpisodeOk(p) ==
    /\ pc[p] = "add_episode"
    /\ episodes' = Append(episodes,
          [user_id |-> turn[p].user, session_id |-> turn[p].session,
           event_type |-> "turn", intent |-> turn[p].id, created_at |-> now])
    /\ Called(p, [op |-> "add_episode", ok |-> TRUE, k |-> 0])
    /\ pc' = [pc EXCEPT ![p] = "add_fact"]
    /\ UNCHANGED <<config, env, compacted, now, nextTurn, exceptEpisodes, turn, lt>>

\* lines 74-75
AddEpisodeFail(p) ==
    /\ pc[p] = "add_episode"
    /\ env.faults
    /\ Called(p, [op |-> "add_episode", ok |-> FALSE, k |-> 0])
    /\ pc' = [pc EXCEPT ![p] = "add_fact"]
    /\ UNCHANGED <<config, env, compacted, now, nextTurn, stores, turn, lt>>

\* line 83: the loop goes to pending procedure k, or after_turn returns
LoopAt(p, k) == IF k <= Len(turn[p].pending) THEN "add_procedure" ELSE "done"

\* lines 77-79
AddFactOk(p) ==
    /\ pc[p] = "add_fact"
    /\ facts' = Append(facts,
          [user_id |-> turn[p].user, text |-> <<turn[p].text, turn[p].id>>])
    /\ Called(p, [op |-> "add_fact", ok |-> TRUE, k |-> 0])
    /\ pc' = [pc EXCEPT ![p] = LoopAt(p, 1)]
    /\ UNCHANGED <<config, env, compacted, now, nextTurn, exceptFacts, turn, lt>>

\* lines 80-81
AddFactFail(p) ==
    /\ pc[p] = "add_fact"
    /\ env.faults
    /\ Called(p, [op |-> "add_fact", ok |-> FALSE, k |-> 0])
    /\ pc' = [pc EXCEPT ![p] = LoopAt(p, 1)]
    /\ UNCHANGED <<config, env, compacted, now, nextTurn, stores, turn, lt>>

\* a save that goes on to the next procedure without the callback
AddProcedureOkNoCallback(p) ==
    /\ pc[p] = "add_procedure"
    /\ LET k == turn[p].k
           q == turn[p].pending[k]
       IN  /\ \E d \in UpsertTargets(procStore, turn[p].user, q.name) :
                 procStore' = UpsertInto(procStore, d, turn[p].user, q.name,
                                         q.steps, "", <<>>,
                                         <<turn[p].id, k>>, now)
           /\ Called(p, [op |-> "add_procedure", ok |-> TRUE, k |-> k])
    /\ ver' = [ver EXCEPT !.saved[turn[p].user] = @ + 1,
                          !.mine[p] = ver.saved[turn[p].user] + 1]
    /\ turn' = [turn EXCEPT ![p].k = @ + 1]
    /\ pc' = [pc EXCEPT ![p] = LoopAt(p, turn[p].k + 1)]
    /\ UNCHANGED <<config, env, compacted, now, nextTurn, exceptProcStore, lt>>

\* lines 84-90: pending procedure k is upserted
AddProcedureOk(p) ==
    /\ pc[p] = "add_procedure"
    /\ LET k == turn[p].k
           q == turn[p].pending[k]
       IN  /\ \E d \in UpsertTargets(procStore, turn[p].user, q.name) :
                 procStore' = UpsertInto(procStore, d, turn[p].user, q.name,
                                         q.steps, "", <<>>,
                                         <<turn[p].id, k>>, now)
           /\ Called(p, [op |-> "add_procedure", ok |-> TRUE, k |-> k])
    /\ ver' = [ver EXCEPT !.saved[turn[p].user] = @ + 1,
                          !.mine[p] = ver.saved[turn[p].user] + 1]
    /\ pc' = [pc EXCEPT ![p] = "on_procedure_saved"]
    /\ UNCHANGED <<config, env, compacted, now, nextTurn, exceptProcStore, turn, lt>>

\* a failed upsert that ends the loop (the try around the whole loop)
AddProcedureFailEndsLoop(p) ==
    /\ pc[p] = "add_procedure"
    /\ env.faults
    /\ Called(p, [op |-> "add_procedure", ok |-> FALSE, k |-> turn[p].k])
    /\ pc' = [pc EXCEPT ![p] = "done"]
    /\ UNCHANGED <<config, env, compacted, now, nextTurn, stores, turn, lt>>

\* lines 95-96: the upsert raised; the loop goes on with the next procedure
AddProcedureFail(p) ==
    /\ pc[p] = "add_procedure"
    /\ env.faults
    /\ Called(p, [op |-> "add_procedure", ok |-> FALSE, k |-> turn[p].k])
    /\ turn' = [turn EXCEPT ![p].k = @ + 1]
    /\ pc' = [pc EXCEPT ![p] = LoopAt(p, turn[p].k + 1)]
    /\ UNCHANGED <<config, env, compacted, now, nextTurn, stores, lt>>

\* lines 91-94 with on_procedure_saved of BaseSupervisorService:
\* ContextCache.delete("proc", user_id)
OnProcedureSavedOk(p) ==
    /\ pc[p] = "on_procedure_saved"
    /\ cache' = [cache EXCEPT ![ProcKey(turn[p].user)] = NoEntry]
    /\ ver' = [ver EXCEPT !.invalidated[turn[p].user] = Max(@, ver.mine[p])]
    /\ Called(p, [op |-> "on_procedure_saved", ok |-> TRUE, k |-> turn[p].k])
    /\ turn' = [turn EXCEPT ![p].k = @ + 1]
    /\ pc' = [pc EXCEPT ![p] = LoopAt(p, turn[p].k + 1)]
    /\ UNCHANGED <<config, env, compacted, now, nextTurn, exceptCache, lt>>

\* lines 95-96: the callback raised (or Redis failed inside delete, which
\* swallows it); the entry stays and the loop goes on
OnProcedureSavedFail(p) ==
    /\ pc[p] = "on_procedure_saved"
    /\ env.faults
    /\ Called(p, [op |-> "on_procedure_saved", ok |-> FALSE, k |-> turn[p].k])
    /\ turn' = [turn EXCEPT ![p].k = @ + 1]
    /\ pc' = [pc EXCEPT ![p] = LoopAt(p, turn[p].k + 1)]
    /\ UNCHANGED <<config, env, compacted, now, nextTurn, stores, lt>>

(***************************************************************************)
(* The text build assembles                                                *)
(***************************************************************************)
\* the length of a user message that alone exceeds the small total limits
LongMessageLength == 2 * CompactionMargin

\* the characters of the strings of the model
Chars(str) ==
    CASE str = "user"      -> <<117, 115, 101, 114>>
      [] str = "assistant" -> <<97, 115, 115, 105, 115, 116, 97, 110, 116>>
      [] str = "none"      -> <<110, 111, 110, 101>>
      [] str = "role"      -> <<114, 111, 108, 101>>
      [] str = "turn"      -> <<116, 117, 114, 110>>
      [] str = "m1"        -> <<109, 49>>
      [] str = "m2"        -> <<109, 50>>
      [] str = "long"      -> [i \in 1..LongMessageLength |-> 120]
      [] str = "n1"        -> <<110, 49>>
      [] str = "n2"        -> <<110, 50>>
      [] str = "d"         -> <<100>>
      [] str = "unnamed"   -> <<117, 110, 110, 97, 109, 101, 100>>
      [] OTHER             -> <<>>

\* str(n) for an integer
RECURSIVE Digits(_)
Digits(n) ==
    IF n < 0 THEN <<45>> \o Digits(0 - n)
    ELSE IF n < 10 THEN <<48 + n>>
    ELSE Digits(n \div 10) \o <<48 + (n % 10)>>

Quoted(str) == <<34>> \o str \o <<34>>

\* json.dumps of a list whose items are rendered already
JsonList(items) == <<91>> \o Join(<<44, 32>>, items) \o <<93>>

\* json.dumps of a message, a dict of two keys
JsonMessage(m) ==
    <<123>> \o Quoted(Chars("role")) \o <<58, 32>> \o Quoted(Chars(m.role))
      \o <<44, 32>> \o Quoted(Chars("turn")) \o <<58, 32>> \o Digits(m.turn)
      \o <<125>>

\* json.dumps of the intent_history of one search result
JsonIntentHistory(ih) ==
    JsonList([i \in 1..Len(ih) |->
                JsonList(<<Quoted(Chars(ih[i][1])), Digits(ih[i][2])>>)])

RecentContextLabel == <<91, 82, 101, 99, 101, 110, 116, 32, 99, 111, 110, 116, 101, 120, 116, 93, 32>>
RelevantHistoryLabel == <<91, 82, 101, 108, 101, 118, 97, 110, 116, 32, 104, 105, 115, 116, 111, 114, 121, 93, 32>>
SavedProceduresLabel == <<91, 83, 97, 118, 101, 100, 32, 112, 114, 111, 99, 101, 100, 117, 114, 101, 115, 93, 10>>
CurrentUserMessageLabel == <<10, 10, 91, 67, 117, 114, 114, 101, 110, 116, 32, 117, 115, 101, 114, 32, 109, 101, 115, 115, 97, 103, 101, 93, 32>>
ProcedureLabel == <<45, 32, 80, 114, 111, 99, 101, 100, 117, 114, 101, 58, 32>>
DescriptionLabel == <<10, 32, 32, 68, 101, 115, 99, 114, 105, 112, 116, 105, 111, 110, 58, 32>>
StepsLabel == <<10, 32, 32, 83, 116, 101, 112, 115, 58, 10>>

\* format_procedures_for_context, lines 11-20: the block of one procedure
ProcedureBlock(q) ==
    ProcedureLabel
      \o (IF q.name = "" THEN Chars("unnamed") ELSE Chars(q.name))
      \o (IF q.description = "" THEN <<>>
          ELSE DescriptionLabel \o Chars(q.description))
      \o (IF q.steps = <<>> THEN <<>>
          ELSE StepsLabel \o
               Join(<<Newline>>,
                    [i \in 1..Len(q.steps) |->
                        <<32, 32, 32, 32>> \o Digits(i) \o <<46, 32>>
                          \o Digits(q.steps[i])]))

\* format_procedures_for_context
FormatProceduresForContext(procedures) ==
    Join(<<Newline, Newline>>,
         [i \in 1..Len(procedures) |-> ProcedureBlock(procedures[i])])

\* pipeline.py lines 94-103: one part for each kind of context that is there
ContextParts(short_term_messages, long_term, procedures) ==
    (IF short_term_messages = <<>> THEN <<>>
     ELSE <<RecentContextLabel \o
            JsonList([i \in 1..Len(short_term_messages) |->
                         JsonMessage(short_term_messages[i])])>>)
    \o (IF long_term = <<>> THEN <<>>
        ELSE LET shown == SliceTo(long_term, config.long_term_max_items)
             IN  <<RelevantHistoryLabel \o
                   JsonList([i \in 1..Len(shown) |->
                                JsonIntentHistory(shown[i].intent_history)])>>)
    \o (IF procedures = <<>> THEN <<>>
        ELSE <<SavedProceduresLabel \o FormatProceduresForContext(procedures)>>)

\* an assembly that appends the marker and the message in every case
AssembleUserMessageAlwaysMarks(context_parts, message) ==
    (IF config.compaction_enabled
     THEN ApplyContextCompaction(context_parts,
                                 config.compaction_max_chars_per_part,
                                 config.compaction_max_total_chars)
     ELSE Join(<<Newline, Newline>>, context_parts))
    \o CurrentUserMessageLabel \o Chars(message)

\* an assembly that hands the marker and the message to the compaction as
\* a last part
AssembleUserMessageCompactsAll(context_parts, message) ==
    IF context_parts = <<>> THEN Chars(message)
    ELSE IF config.compaction_enabled
         THEN ApplyContextCompaction(
                 Append(context_parts,
                        SubSeq(CurrentUserMessageLabel, 3,
                               Len(CurrentUserMessageLabel)) \o Chars(message)),
                 config.compaction_max_chars_per_part,
                 config.compaction_max_total_chars)
         ELSE Join(<<Newline, Newline>>, context_parts)
                 \o CurrentUserMessageLabel \o Chars(message)

\* pipeline.py lines 105-116
AssembleUserMessage(context_parts, message) ==
    IF context_parts = <<>> THEN Chars(message)
    ELSE (IF config.compaction_enabled
          THEN ApplyContextCompaction(context_parts,
                                      config.compaction_max_chars_per_part,
                                      config.compaction_max_total_chars)
          ELSE Join(<<Newline, Newline>>, context_parts))
         \o CurrentUserMessageLabel \o Chars(message)

(***************************************************************************)
(* The errors that leave the stores and MemoryManager                      *)
(***************************************************************************)
\* the operations of MemoryManager that reach a backend
ConnectOps == {"connect"}
ReadOps == {"get_short_term", "get_relevant_history", "get_episodes",
            "search_facts", "get_all_facts", "get_procedure", "list_procedures"}
WriteOps == {"save_short_term", "save_long_term", "clear_session",
             "add_episode", "add_fact", "add_procedure"}
FacadeOps == ConnectOps \cup ReadOps \cup WriteOps

\* what may go wrong below the store: the backend cannot be reached, the
\* query or insert fails, a value cannot be serialised
StoreFailures == {"unreachable", "operation", "serialisation"}

\* the error class the except clause of the operation names
StoreErrorOf(op) ==
    CASE op \in {"connect", "save_short_term", "get_short_term", "clear_session"}
            -> "ShortTermMemoryError"
      [] op \in {"save_long_term", "get_relevant_history"} -> "LongTermMemoryError"
      [] op \in {"add_episode", "get_episodes"} -> "EpisodicMemoryError"
      [] op \in {"add_fact", "search_facts", "get_all_facts"} -> "SemanticMemoryError"
      [] op \in {"add_procedure", "get_procedure", "list_procedures"}
            -> "ProceduralMemoryError"

\* the exception that leaves the store method the operation calls, "none"
\* when the method returns: ShortTermMemory and LongTermMemory.save wrap
\* every exception; get_relevant wraps a failed mem0 init and swallows the
\* rest; the episodic, semantic and procedural stores have no try at all
StoreRaises(op, failure) ==
    CASE failure = "none" -> "none"
      [] op \in {"connect", "save_short_term", "get_short_term", "clear_session"}
            -> "ShortTermMemoryError"
      [] op = "save_long_term" -> "LongTermMemoryError"
      [] op = "get_relevant_history" ->
            IF failure = "unreachable" THEN "LongTermMemoryError" ELSE "none"
      [] OTHER -> "DriverError"

\* the exception that leaves the facade: connect catches Exception, every
\* other operation only the error class of its store
FacadeRaises(op, exc) ==
    CASE exc = "none" -> "none"
      [] op \in ConnectOps -> "MemoryConnectionError"
      [] exc = StoreErrorOf(op) ->
            IF op \in ReadOps THEN "MemoryReadError" ELSE "MemoryWriteError"
      [] OTHER -> exc

(***************************************************************************)
(* ContextPipeline.build, one await at a time                              *)
(***************************************************************************)
\* the locals of build; id is the turn's number, after the number of builds
\* that had returned when this one was called, need the invalidation that
\* had completed by then, lt_seen the writer of the "lt" entry Redis held
\* when it was read, proc_as_of the procedure saves done when the list
\* this build returns was read from Mongo; lt_fetched_at and proc_fetched_at
\* when this build read its data from the stores; proc_failure what raised
\* inside the try of lines 67-81; lt_hit and proc_hit, when
\* the data came from the cache: its age since it was read from the store
\* and since it was written to the cache
NoBuild == [id |-> 0, user |-> "u1", session |-> "s1", text |-> "m1",
            short_term |-> NoRecord, long_term |-> <<>>, procedures |-> <<>>,
            user_message |-> <<>>, cache_failed |-> FALSE,
            error |-> "none", lt_failure |-> "none", proc_failure |-> "none",
            lt_fetched_at |-> 0, proc_fetched_at |-> 0,
            lt_hit |-> <<>>, proc_hit |-> <<>>,
            searches |-> 0, lt_seen |-> 0, lt_get_at |-> 0, lt_set_at |-> 0,
            proc_cached |-> FALSE, proc_as_of |-> 0, need |-> 0, after |-> 0]

\* _mem0_result_to_item: the metadata of a search result
Mem0ResultToItem(e) ==
    [intent_history |-> e.intent_history, messages |-> e.messages,
     call |-> e.call]

\* LongTermMemory.get_relevant: nothing for a blank user; else the entries
\* mem0 holds for the user, in index order, at most limit of them
GetRelevant(u, limit) ==
    IF Strip(u) = "" THEN <<>>
    ELSE LET own == {i \in 1..Len(ltSearch) : ltSearch[i].user_id = Strip(u)}
             F[i \in 0..Len(ltSearch)] ==
                 IF i = 0 THEN <<>>
                 ELSE IF i \in own
                      THEN Append(F[i - 1], Mem0ResultToItem(ltSearch[i]))
                      ELSE F[i - 1]
         IN  SliceTo(F[Len(ltSearch)], limit)

\* ProceduralMemory.list_procedures(include_docs=True): the documents of
\* the user, newest updated_at first, at most limit of them; documents
\* with the same updated_at come in either order
ListProcedures(u, limit) ==
    IF Strip(u) = "" THEN {<<>>}
    ELSE LET D == {d \in procStore : d.user_id = Strip(u)}
             n == Cardinality(D)
         IN  {SliceTo(f, limit) :
                f \in {g \in [1..n -> D] :
                         \A i, j \in 1..n :
                            i < j => /\ g[i] # g[j]
                                     /\ g[i].updated_at >= g[j].updated_at}}

\* apply_context_filter, lines 19 and 22 (long_term_min_score is None)
FilterLongTerm(long_term) ==
    IF config.filter_enabled
    THEN SliceTo(long_term, config.long_term_max_items) ELSE long_term

FilterProcedures(procedures) ==
    IF config.filter_enabled
    THEN SliceTo(procedures, config.procedure_max_items) ELSE procedures

\* line 23: the last short_term_recent_n messages
FilterShortTerm(short_term_messages) ==
    IF config.filter_enabled
    THEN LastN(short_term_messages, config.short_term_recent_n)
    ELSE short_term_messages

\* line 45: build is called; it runs up to its first await
BuildStart(p) ==
    /\ pc[p] \in {"idle", "done", "raised"}
    /\ nextTurn <= env.max_turns
    /\ \E text \in env.texts :
          bld' = [bld EXCEPT ![p] =
             [NoBuild EXCEPT !.id = nextTurn, !.text = text,
                             !.after = Len(built),
                             !.need = ver.invalidated["u1"]]]
    /\ nextTurn' = nextTurn + 1
    /\ pc' = [pc EXCEPT ![p] = "b_get_short_term"]
    /\ UNCHANGED <<config, env, compacted, now, shortTerm, offloaded, ltDurable, ltSearch,
                   ltConn, episodes, facts, procStore, cache, lastSave, built,
                   ver, turn, calls, lt>>

\* where build goes after the long-term part
AfterLongTerm ==
    IF config.cache_present THEN "b_cache_get_proc" ELSE "b_list_procedures"

\* lines 50-55
BuildGetShortTerm(p) ==
    /\ pc[p] = "b_get_short_term"
    /\ bld' = [bld EXCEPT ![p].short_term = ShortTermGet(bld[p].session)]
    /\ pc' = [pc EXCEPT ![p] =
          IF config.cache_present THEN "b_cache_get_lt" ELSE "b_get_relevant"]
    /\ UNCHANGED <<config, env, compacted, now, nextTurn, shortTerm, offloaded, ltDurable,
                   ltSearch, ltConn, episodes, facts, procStore, cache,
                   lastSave, built, ver, turn, calls, lt>>

\* a cache read whose hit is never used
BuildCacheGetLtIgnoresHit(p) ==
    /\ pc[p] = "b_cache_get_lt"
    /\ LET k == LtKey(bld[p].user, bld[p].text)
       IN  bld' = [bld EXCEPT ![p].lt_seen = cache[k].writer,
                              ![p].lt_get_at = now]
    /\ pc' = [pc EXCEPT ![p] = "b_get_relevant"]
    /\ UNCHANGED <<config, env, compacted, now, nextTurn, shortTerm, offloaded, ltDurable,
                   ltSearch, ltConn, episodes, facts, procStore, cache,
                   lastSave, built, ver, turn, calls, lt>>

\* the age of a cache entry that is used now: since its data was fetched,
\* and since the set that wrote it
HitAge(e) ==
    IF env.ages
    THEN <<now - e.fetched_at, now - (e.expires - config.cache_ttl)>>
    ELSE <<>>

\* the time a read from a store is remembered as
FetchedNow == IF env.ages THEN now ELSE 0

\* lines 56-59: a hit is used when it is a non-empty list
BuildCacheGetLt(p) ==
    /\ pc[p] = "b_cache_get_lt"
    /\ LET k == LtKey(bld[p].user, bld[p].text)
           e == CacheLookup(k)
       IN  /\ bld' = [bld EXCEPT ![p].long_term = e.value,
                                 ![p].lt_seen = cache[k].writer,
                                 ![p].lt_get_at = now,
                                 ![p].lt_hit =
                                     IF e.value = <<>> THEN <<>> ELSE HitAge(e)]
           /\ pc' = [pc EXCEPT ![p] =
                 IF e.value = <<>> THEN "b_get_relevant" ELSE AfterLongTerm]
    /\ UNCHANGED <<config, env, compacted, now, nextTurn, shortTerm, offloaded, ltDurable,
                   ltSearch, ltConn, episodes, facts, procStore, cache,
                   lastSave, built, ver, turn, calls, lt>>

\* MemoryManager.get_relevant_history over LongTermMemory.get_relevant
\* (lines 240-263) with a mem0 that fails at its init or at the search: the
\* exception raised, the list returned, and whether self._mem0 is set after
GetRelevantOutcomeRaisesOnSearch(u, limit, failure) ==
    IF Strip(u) = ""
    THEN [raised |-> "none", value |-> <<>>, mem0 |-> ltConn.mem0]
    ELSE IF failure = "init" /\ ~ltConn.mem0
    THEN [raised |-> "LongTermMemoryError", value |-> <<>>, mem0 |-> FALSE]
    ELSE IF failure = "search"
    THEN [raised |-> "LongTermMemoryError", value |-> <<>>, mem0 |-> TRUE]
    ELSE [raised |-> "none", value |-> GetRelevant(u, limit), mem0 |-> TRUE]

GetRelevantOutcome(u, limit, failure) ==
    IF Strip(u) = ""
    THEN [raised |-> "none", value |-> <<>>, mem0 |-> ltConn.mem0]
    ELSE IF failure = "init" /\ ~ltConn.mem0
    THEN [raised |-> "LongTermMemoryError", value |-> <<>>, mem0 |-> FALSE]
    ELSE IF failure = "search"
    THEN [raised |-> "none", value |-> <<>>, mem0 |-> TRUE]
    ELSE [raised |-> "none", value |-> GetRelevant(u, limit), mem0 |-> TRUE]

\* lines 60-63 of build: nothing catches what get_relevant_history raises
BuildGetRelevantWith(p, failure) ==
    LET o == GetRelevantOutcome(bld[p].user, config.long_term_max_items, failure)
        e == FacadeRaises("get_relevant_history", o.raised)
    IN  /\ pc[p] = "b_get_relevant"
        /\ bld' = [bld EXCEPT ![p].long_term = o.value,
                               ![p].searches = @ + 1,
                               ![p].lt_failure = failure,
                               ![p].lt_fetched_at = FetchedNow,
                               ![p].error = e]
        /\ ltConn' = [ltConn EXCEPT !.mem0 = o.mem0]
        /\ pc' = [pc EXCEPT ![p] =
              IF e # "none" THEN "b_raised"
              ELSE IF config.cache_present THEN "b_cache_set_lt"
              ELSE AfterLongTerm]
        /\ UNCHANGED <<config, env, compacted, now, nextTurn, shortTerm,
                       offloaded, ltDurable, ltSearch, episodes, facts,
                       procStore, cache, lastSave, built, ver, turn, calls, lt>>

\* the search backend is healthy
BuildGetRelevant(p) == BuildGetRelevantWith(p, "none")

\* mem0 cannot be initialised (only while self._mem0 is None), or its
\* search fails
BuildGetRelevantFail(p) ==
    /\ env.faults
    /\ \E failure \in {"init", "search"} :
          /\ failure = "init" => ~ltConn.mem0
          /\ BuildGetRelevantWith(p, failure)

\* line 64 with ContextCache.set: setex of whatever the search returned
BuildCacheSetLt(p) ==
    /\ pc[p] = "b_cache_set_lt"
    /\ cache' = [cache EXCEPT ![LtKey(bld[p].user, bld[p].text)] =
          [present |-> TRUE, value |-> bld[p].long_term,
           expires |-> now + config.cache_ttl, writer |-> bld[p].id,
           as_of |-> 0, fetched_at |-> bld[p].lt_fetched_at]]
    /\ bld' = [bld EXCEPT ![p].lt_set_at = now]
    /\ pc' = [pc EXCEPT ![p] = AfterLongTerm]
    /\ UNCHANGED <<config, env, compacted, now, nextTurn, shortTerm, offloaded, ltDurable,
                   ltSearch, ltConn, episodes, facts, procStore, lastSave,
                   built, ver, turn, calls, lt>>

\* a build that returns the record with the messages the filter kept
BuildReturnFilteredShortTerm(p, f) ==
    LET long_term == FilterLongTerm(f.long_term)
        procedures == FilterProcedures(f.procedures)
        kept == FilterShortTerm(f.short_term.messages)
        parts == ContextParts(kept, long_term, procedures)
        r == [f EXCEPT !.long_term = long_term,
                       !.procedures = procedures,
                       !.short_term = [f.short_term EXCEPT !.messages = kept],
                       !.lt_fetched_at = 0, !.proc_fetched_at = 0,
                       !.user_message = AssembleUserMessage(parts, f.text)]
    IN  /\ bld' = [bld EXCEPT ![p] = r]
        /\ built' = Append(built, r)
        /\ pc' = [pc EXCEPT ![p] = "built"]

\* lines 83-118: filter, assemble and return the BuildResult
BuildReturn(p, f) ==
    LET long_term == FilterLongTerm(f.long_term)
        procedures == FilterProcedures(f.procedures)
        parts == ContextParts(FilterShortTerm(f.short_term.messages),
                              long_term, procedures)
        r == [f EXCEPT !.long_term = long_term,
                       !.procedures = procedures,
                       !.lt_fetched_at = 0, !.proc_fetched_at = 0,
                       !.user_message = AssembleUserMessage(parts, f.text)]
    IN  /\ bld' = [bld EXCEPT ![p] = r]
        /\ built' = Append(built, r)
        /\ pc' = [pc EXCEPT ![p] = "built"]

\* lines 68-72: a hit is used when it is a non-empty list
BuildCacheGetProc(p) ==
    /\ pc[p] = "b_cache_get_proc"
    /\ LET e == CacheLookup(ProcKey(bld[p].user))
       IN  IF e.value = <<>>
           THEN /\ pc' = [pc EXCEPT ![p] = "b_list_procedures"]
                /\ UNCHANGED <<bld, built>>
           ELSE BuildReturn(p, [bld[p] EXCEPT !.procedures = e.value,
                                              !.proc_cached = TRUE,
                                              !.proc_as_of = e.as_of,
                                              !.proc_hit = HitAge(e)])
    /\ UNCHANGED <<config, env, compacted, now, nextTurn, shortTerm, offloaded, ltDurable,
                   ltSearch, ltConn, episodes, facts, procStore, cache,
                   lastSave, ver, turn, calls, lt>>

\* lines 73-78
BuildListProcedures(p) ==
    /\ pc[p] = "b_list_procedures"
    /\ \E l \in ListProcedures(bld[p].user, config.procedure_max_items) :
          LET f == [bld[p] EXCEPT !.procedures = l,
                                  !.proc_as_of = ver.saved[bld[p].user],
                                  !.proc_fetched_at = FetchedNow]
          IN  IF config.cache_present /\ l # <<>>
              THEN /\ bld' = [bld EXCEPT ![p] = f]
                   /\ pc' = [pc EXCEPT ![p] = "b_cache_set_proc"]
                   /\ UNCHANGED built
              ELSE BuildReturn(p, f)
    /\ UNCHANGED <<config, env, compacted, now, nextTurn, shortTerm, offloaded, ltDurable,
                   ltSearch, ltConn, episodes, facts, procStore, cache,
                   lastSave, ver, turn, calls, lt>>

\* line 79 with ContextCache.set
BuildCacheSetProc(p) ==
    /\ pc[p] = "b_cache_set_proc"
    /\ cache' = [cache EXCEPT ![ProcKey(bld[p].user)] =
          [present |-> TRUE, value |-> bld[p].procedures,
           expires |-> now + config.cache_ttl, writer |-> bld[p].id,
           as_of |-> bld[p].proc_as_of,
           fetched_at |-> bld[p].proc_fetched_at]]
    /\ BuildReturn(p, bld[p])
    /\ UNCHANGED <<config, env, compacted, now, nextTurn, shortTerm, offloaded, ltDurable,
                   ltSearch, ltConn, episodes, facts, procStore, lastSave,
                   ver, turn, calls, lt>>

\* ContextCache.get, lines 41-42 and 49-50: Redis is not connected or the
\* read fails; get returns None, which build takes for a miss
BuildCacheGetLtFail(p) ==
    /\ pc[p] = "b_cache_get_lt"
    /\ env.cache_faults
    /\ bld' = [bld EXCEPT ![p].lt_get_at = now, ![p].cache_failed = TRUE]
    /\ pc' = [pc EXCEPT ![p] = "b_get_relevant"]
    /\ UNCHANGED <<config, env, compacted, now, nextTurn, shortTerm, offloaded, ltDurable,
                   ltSearch, ltConn, episodes, facts, procStore, cache,
                   lastSave, built, ver, turn, calls, lt>>

\* ContextCache.set, lines 53-54 and 58-59: nothing is written, set returns
BuildCacheSetLtFail(p) ==
    /\ pc[p] = "b_cache_set_lt"
    /\ env.cache_faults
    /\ bld' = [bld EXCEPT ![p].cache_failed = TRUE]
    /\ pc' = [pc EXCEPT ![p] = AfterLongTerm]
    /\ UNCHANGED <<config, env, compacted, now, nextTurn, shortTerm, offloaded, ltDurable,
                   ltSearch, ltConn, episodes, facts, procStore, cache,
                   lastSave, built, ver, turn, calls, lt>>

\* a failed cache read that leaves build's try block as an exception:
\* line 81 makes the procedures empty
BuildCacheGetProcFailRaises(p) ==
    /\ pc[p] = "b_cache_get_proc"
    /\ env.cache_faults
    /\ BuildReturn(p, [bld[p] EXCEPT !.procedures = <<>>,
                                     !.cache_failed = TRUE])
    /\ UNCHANGED <<config, env, compacted, now, nextTurn, shortTerm, offloaded, ltDurable,
                   ltSearch, ltConn, episodes, facts, procStore, cache,
                   lastSave, ver, turn, calls, lt>>

\* ContextCache.get fails on the "proc" key: a miss
BuildCacheGetProcFail(p) ==
    /\ pc[p] = "b_cache_get_proc"
    /\ env.cache_faults
    /\ bld' = [bld EXCEPT ![p].cache_failed = TRUE]
    /\ pc' = [pc EXCEPT ![p] = "b_list_procedures"]
    /\ UNCHANGED <<config, env, compacted, now, nextTurn, shortTerm, offloaded, ltDurable,
                   ltSearch, ltConn, episodes, facts, procStore, cache,
                   lastSave, built, ver, turn, calls, lt>>

\* ContextCache.set fails on the "proc" key: nothing is written
BuildCacheSetProcFail(p) ==
    /\ pc[p] = "b_cache_set_proc"
    /\ env.cache_faults
    /\ BuildReturn(p, [bld[p] EXCEPT !.cache_failed = TRUE])
    /\ UNCHANGED <<config, env, compacted, now, nextTurn, shortTerm, offloaded, ltDurable,
                   ltSearch, ltConn, episodes, facts, procStore, cache,
                   lastSave, ver, turn, calls, lt>>

BuildCacheFail(p) ==
    \/ BuildCacheGetLtFail(p) \/ BuildCacheSetLtFail(p)
    \/ BuildCacheGetProcFail(p) \/ BuildCacheSetProcFail(p)

\* Redis loses an entry of the context cache (eviction, flush, restart)
CacheLost ==
    /\ env.cache_faults
    /\ \E k \in CacheKeys :
          /\ cache[k].present
          /\ cache' = [cache EXCEPT ![k] = NoEntry]
    /\ UNCHANGED <<config, env, compacted, now, nextTurn, exceptCache, ver, pc, turn,
                   calls, lt>>

Build(p) ==
    \/ BuildGetShortTerm(p)
    \/ BuildCacheGetLt(p) \/ BuildGetRelevant(p) \/ BuildCacheSetLt(p)
    \/ BuildCacheGetProc(p) \/ BuildListProcedures(p) \/ BuildCacheSetProc(p)

\* BaseSupervisorService.chat, lines 111-132: the agent runs on the built
\* message, its tool queues procedures, and after_turn is entered with the
\* short-term record the build returned
RunAgent(p) ==
    /\ pc[p] = "built"
    /\ p \in env.agents
    /\ \E names \in env.pending :
          AfterTurnEnter(p, bld[p].id, bld[p].user, bld[p].session,
                         bld[p].text, bld[p].short_term,
                         PendingProcedures(names, bld[p].id))
    /\ UNCHANGED <<config, env, compacted, now, nextTurn, stores, lt>>

(***************************************************************************)
(* Specifications                                                          *)
(***************************************************************************)
DefaultConfig ==
    [offload_enabled |-> TRUE,
     offload_message_threshold |-> DefaultOffloadThreshold,
     offload_keep_recent |-> DefaultOffloadKeepRecent,
     max_messages |-> DefaultMaxMessages,
     short_term_ttl |-> DefaultShortTermTtl,
     cache_present |-> TRUE,
     cache_enabled |-> TRUE,
     cache_ttl |-> DefaultCacheTtl,
     filter_enabled |-> TRUE,
     long_term_max_items |-> DefaultLongTermMaxItems,
     procedure_max_items |-> DefaultProcedureMaxItems,
     short_term_recent_n |-> DefaultShortTermRecentN,
     compaction_enabled |-> TRUE,
     compaction_max_chars_per_part |-> DefaultCompactionMaxCharsPerPart,
     compaction_max_total_chars |-> DefaultCompactionMaxTotalChars]

\* a record an earlier save left in Redis
OldRecord(n) ==
    [present |-> TRUE, messages |-> OldMessages(n), last_intent |-> 0,
     expires |-> DefaultShortTermTtl]

InitState ==
    /\ now = 0
    /\ nextTurn = 1
    /\ offloaded = <<>>
    /\ ltDurable = <<>>
    /\ ltConn = [mongo |-> FALSE, mem0 |-> FALSE]
    /\ episodes = <<>>
    /\ facts = <<>>
    /\ pc = [p \in Procs |-> "idle"]
    /\ turn = [p \in Procs |-> NoTurn]
    /\ calls = [p \in Procs |-> <<>>]
    /\ lt = [p \in Procs |-> NoFrame]
    /\ lastSave = [s \in Sessions |-> NoSave]
    /\ bld = [p \in Procs |-> NoBuild]
    /\ built = <<>>
    /\ ver = NoVersions

InitRest == InitState /\ compacted = NoCompaction

\* a procedure saved before the behaviour starts, and its cache entry
OldProc == [id |-> <<0, 1>>, user_id |-> "u1", name |-> "n1",
            steps |-> <<0, 1>>, description |-> "", conditions |-> <<>>,
            created_at |-> 0, updated_at |-> 0]

OldProcEntry == [present |-> TRUE, value |-> <<OldProc>>,
                 expires |-> DefaultCacheTtl, writer |-> 0, as_of |-> 0,
                 fetched_at |-> 0]

\* serialized turns of one session, default configuration, failing backends
InitFaults ==
    /\ config = DefaultConfig
    /\ env = [faults |-> TRUE, max_turns |-> MaxFaultTurns,
              pending |-> AlternatingNames(MaxPending),
              texts |-> {"m1"}, max_ticks |-> MaxTicks, agents |-> Procs,
              cache_faults |-> FALSE, offloads |-> TRUE, ages |-> FALSE]
    /\ \E n \in {0, MaxPre - 2} :
          shortTerm = [s \in Sessions |->
                          IF s = "s1" /\ n > 0 THEN OldRecord(n) ELSE NoRecord]
    /\ procStore = {OldProc}
    /\ cache \in {[k \in CacheKeys |-> NoEntry],
                  [k \in CacheKeys |->
                      IF k = ProcKey("u1") THEN OldProcEntry ELSE NoEntry]}
    /\ ltSearch = <<>>
    /\ InitRest

AfterTurn(p) ==
    \/ OffloadOk(p) \/ OffloadFail(p)
    \/ SaveShortTermOk(p) \/ SaveShortTermFail(p)
    \/ SaveLongTermCall(p) \/ SaveLongTermReturn(p) \/ SaveLongTermRaise(p)
    \/ AddEpisodeOk(p) \/ AddEpisodeFail(p)
    \/ AddFactOk(p) \/ AddFactFail(p)
    \/ AddProcedureOk(p) \/ AddProcedureFail(p)
    \/ OnProcedureSavedOk(p) \/ OnProcedureSavedFail(p)

NextFaults == StartTurn(1) \/ AfterTurn(1) \/ LongTermSave(1)

SpecFaults == InitFaults /\ [][NextFaults]_vars

\* the clock advances, half a cache TTL at a time
Tick ==
    /\ now < env.max_ticks * TickSeconds
    /\ now' = now + TickSeconds
    /\ UNCHANGED <<config, env, compacted, nextTurn, stores, pc, turn, calls, lt>>

(***************************************************************************)
(* LongTermMemory.save called directly, by concurrent callers              *)
(***************************************************************************)
NoRoleMsg(t) == [role |-> "none", turn |-> t]

\* the message lists a caller passes
DirectMessages(t) ==
    {<<>>, <<UserMsg(t)>>, <<NoRoleMsg(t)>>, <<UserMsg(t), AsstMsg(t)>>,
     <<NoRoleMsg(t), AsstMsg(t)>>}

DirectLongTermCall(p) ==
    /\ pc[p] = "idle"
    /\ nextTurn <= env.max_turns
    /\ \E messages \in DirectMessages(nextTurn) :
          LongTermSaveEnter(p, "u1", "s1", messages, <<>>, nextTurn)
    /\ nextTurn' = nextTurn + 1
    /\ pc' = [pc EXCEPT ![p] = "direct_long_term"]
    /\ UNCHANGED <<config, env, compacted, now, stores, turn, calls>>

\* save returned or raised LongTermMemoryError to its caller
DirectLongTermEnd(p) ==
    /\ pc[p] = "direct_long_term"
    /\ lt[p].pc \in {"returned", "raised"}
    /\ Called(p, [op |-> "save", ok |-> lt[p].pc = "returned", k |-> lt[p].call,
                  n |-> Len(lt[p].messages)])
    /\ lt' = [lt EXCEPT ![p].pc = "none"]
    /\ pc' = [pc EXCEPT ![p] = "idle"]
    /\ UNCHANGED <<config, env, compacted, now, nextTurn, stores, turn>>

\* MemoryManager.save_long_term(user_id, session_id, {"messages": ...}),
\* lines 83-85: it returns at once when messages is empty, else it calls save
DirectFacadeCall(p) ==
    /\ pc[p] = "idle"
    /\ nextTurn <= env.max_turns
    /\ \E messages \in DirectMessages(nextTurn) :
          IF messages = <<>>
          THEN /\ Called(p, [op |-> "save_long_term", ok |-> TRUE,
                             k |-> nextTurn, n |-> 0])
               /\ UNCHANGED <<pc, lt>>
          ELSE /\ LongTermSaveEnter(p, "u1", "s1", messages, <<>>, nextTurn)
               /\ pc' = [pc EXCEPT ![p] = "direct_facade"]
               /\ UNCHANGED calls
    /\ nextTurn' = nextTurn + 1
    /\ UNCHANGED <<config, env, compacted, now, stores, turn>>

\* lines 86-96: save returned, or its LongTermMemoryError is raised to the
\* caller as MemoryWriteError
DirectFacadeEnd(p) ==
    /\ pc[p] = "direct_facade"
    /\ lt[p].pc \in {"returned", "raised"}
    /\ Called(p, [op |-> "save_long_term", ok |-> lt[p].pc = "returned",
                  k |-> lt[p].call, n |-> Len(lt[p].messages)])
    /\ lt' = [lt EXCEPT ![p].pc = "none"]
    /\ pc' = [pc EXCEPT ![p] = "idle"]
    /\ UNCHANGED <<config, env, compacted, now, nextTurn, stores, turn>>

InitLongTerm ==
    /\ config = DefaultConfig
    /\ env = [faults |-> TRUE, max_turns |-> MaxTurns, pending |-> {<<>>},
              texts |-> {"m1"}, max_ticks |-> MaxTicks, agents |-> Procs,
              cache_faults |-> FALSE, offloads |-> TRUE, ages |-> FALSE]
    /\ shortTerm = [s \in Sessions |-> NoRecord]
    /\ procStore = {}
    /\ cache = [k \in CacheKeys |-> NoEntry]
    /\ ltSearch = <<>>
    /\ InitRest

NextLongTerm ==
    \E p \in Procs :
        \/ DirectLongTermCall(p) \/ DirectLongTermEnd(p)
        \/ DirectFacadeCall(p) \/ DirectFacadeEnd(p)
        \/ LongTermSave(p)

SpecLongTerm == InitLongTerm /\ [][NextLongTerm]_vars

\* C3: a search-index entry is written only after the durable insert of the
\* same save call succeeded: every search entry has the durable record of its
\* call, save reaches the search index only with that record in place, and a
\* call whose durable write failed leaves no search entry.
C3_SearchOnlyAfterDurable ==
    /\ \A i \in 1..Len(ltSearch) :
          \E j \in 1..Len(ltDurable) :
              /\ ltDurable[j].call = ltSearch[i].call
              /\ ltDurable[j].user_id = ltSearch[i].user_id
              /\ ltDurable[j].session_id = ltSearch[i].session_id
    /\ \A p \in Procs :
          /\ lt[p].pc \in {"ensure_mem0", "mem0_add"} =>
                \E j \in 1..Len(ltDurable) : ltDurable[j].call = lt[p].call
          /\ lt[p].pc = "raised" =>
                \A i \in 1..Len(ltSearch) : ltSearch[i].call # lt[p].call
    /\ \A p \in Procs : \A i \in 1..Len(calls[p]) :
          (calls[p][i].op = "save" /\ ~calls[p][i].ok) =>
              \A j \in 1..Len(ltSearch) : ltSearch[j].call # calls[p][i].k

\* one call wrote both copies while another call's durable insert failed
C3_Witness ==
    /\ ltSearch # <<>>
    /\ \E p \in Procs : lt[p].pc = "raised" /\ ltConn.mongo

(***************************************************************************)
(* ShortTermMemory called directly                                         *)
(***************************************************************************)
DirectMsg(t, i) ==
    [role |-> IF i % 2 = 1 THEN "user" ELSE "assistant", turn |-> 0 - (100 * t + i)]

\* save(session_id, {"messages": n messages})
DirectShortTermSave(p, s) ==
    /\ pc[p] = "idle"
    /\ nextTurn <= env.max_turns
    /\ \E n \in 0..(MaxSmallCfg + 1) :
          LET messages == [i \in 1..n |-> DirectMsg(nextTurn, i)]
          IN  /\ shortTerm' = [shortTerm EXCEPT ![s] =
                                  ShortTermPayload(messages, nextTurn)]
              /\ lastSave' = [lastSave EXCEPT ![s] =
                                  [turn |-> nextTurn, messages |-> messages]]
    /\ nextTurn' = nextTurn + 1
    /\ Called(p, [op |-> "save", ok |-> TRUE, k |-> nextTurn])
    /\ UNCHANGED <<config, env, compacted, now, exceptShortTerm, pc, turn, lt>>

\* get(session_id): the caller holds the record, or None
DirectShortTermGet(p, s) ==
    /\ pc[p] = "idle"
    /\ turn[p].before # ShortTermGet(s)
    /\ turn' = [turn EXCEPT ![p].before = ShortTermGet(s)]
    /\ UNCHANGED <<config, env, compacted, now, nextTurn, stores, pc, calls, lt>>

\* clear(session_id)
DirectShortTermClear(p, s) ==
    /\ pc[p] = "idle"
    /\ shortTerm[s].present
    /\ shortTerm' = [shortTerm EXCEPT ![s] = NoRecord]
    /\ UNCHANGED <<config, env, compacted, now, nextTurn, exceptShortTerm, lastSave, pc,
                   turn, calls, lt>>

InitShortTerm ==
    /\ \E mm \in 0..MaxSmallCfg : \E ttl \in {TickSeconds, DefaultShortTermTtl} :
          config = [DefaultConfig EXCEPT !.max_messages = mm,
                                         !.short_term_ttl = ttl]
    /\ env = [faults |-> FALSE, max_turns |-> MaxTurns, pending |-> {<<>>},
              texts |-> {"m1"}, max_ticks |-> MaxTicks, agents |-> Procs,
              cache_faults |-> FALSE, offloads |-> TRUE, ages |-> FALSE]
    /\ shortTerm = [s \in Sessions |-> NoRecord]
    /\ procStore = {}
    /\ cache = [k \in CacheKeys |-> NoEntry]
    /\ ltSearch = <<>>
    /\ InitRest

NextShortTerm ==
    \/ \E s \in Sessions :
          DirectShortTermSave(1, s) \/ DirectShortTermGet(1, s) \/ DirectShortTermClear(1, s)
    \/ Tick

SpecShortTerm == InitShortTerm /\ [][NextShortTerm]_vars

\* the last n elements of a list (none when n = 0)
TailN(s0, n) == SubSeq(s0, Len(s0) - Min(n, Len(s0)) + 1, Len(s0))

\* C4: every stored session record holds at most max_messages messages, the
\* last max_messages elements of the list passed to the most recent save of
\* that session.
C4_AtMostMaxMessages ==
    \A s \in Sessions :
        shortTerm[s].present =>
            /\ Len(shortTerm[s].messages) <= config.max_messages
            /\ shortTerm[s].messages = TailN(lastSave[s].messages, config.max_messages)

\* what the code keeps: the claim for max_messages >= 1, everything for 0
C4_CodeKeeps ==
    \A s \in Sessions :
        shortTerm[s].present =>
            shortTerm[s].messages =
                IF config.max_messages = 0 THEN lastSave[s].messages
                ELSE TailN(lastSave[s].messages, config.max_messages)

(***************************************************************************)
(* Serialized turns under every configuration, healthy backends            *)
(***************************************************************************)
SmallOr(default) == (0..MaxSmallCfg) \cup {default}

InitOffload ==
    /\ \E en \in BOOLEAN :
       \E thr \in SmallOr(DefaultOffloadThreshold) :
       \E keep \in SmallOr(DefaultOffloadKeepRecent) :
       \E mm \in SmallOr(DefaultMaxMessages) :
          config = [DefaultConfig EXCEPT !.offload_enabled = en,
                                         !.offload_message_threshold = thr,
                                         !.offload_keep_recent = keep,
                                         !.max_messages = mm]
    /\ env = [faults |-> FALSE, max_turns |-> MaxTurns, pending |-> {<<>>},
              texts |-> {"m1"}, max_ticks |-> MaxTicks, agents |-> Procs,
              cache_faults |-> FALSE, offloads |-> TRUE, ages |-> FALSE]
    \* the record an earlier save left: at most max_messages long (a store
    \* with max_messages = 0 keeps whatever it was given)
    /\ \E n \in 0..MaxPre :
          /\ config.max_messages = 0 \/ n <= config.max_messages
          /\ shortTerm = [s \in Sessions |->
                            IF s = "s1" /\ n > 0 THEN OldRecord(n) ELSE NoRecord]
    /\ procStore = {}
    /\ cache = [k \in CacheKeys |-> NoEntry]
    /\ ltSearch = <<>>
    /\ InitRest

AfterTurnOk(p) ==
    \/ OffloadOk(p)
    \/ SaveShortTermOk(p)
    \/ SaveLongTermCall(p) \/ SaveLongTermReturn(p)
    \/ AddEpisodeOk(p)
    \/ AddFactOk(p)

LongTermSaveOk(p) ==
    LTEnsureMongoOk(p) \/ LTInsertOk(p) \/ LTEnsureMem0Ok(p) \/ LTMem0AddOk(p)

NextOffload == StartTurn(1) \/ AfterTurnOk(1) \/ LongTermSaveOk(1)

SpecOffload == InitOffload /\ [][NextOffload]_vars

ChunksOf(t) == {i \in 1..Len(offloaded) : offloaded[i].turn = t}

\* C5: when offloading is enabled and the extended list of length L exceeds
\* the threshold, with 1 <= offload_keep_recent < L, after_turn archives the
\* first L - offload_keep_recent messages as one chunk and saves the last
\* offload_keep_recent messages to short-term: archived ++ saved is the
\* extended list.
C5_OffloadSplitsExactly ==
    \A p \in Procs :
        LET nm == turn[p].new_messages
            L == Len(nm)
            keep == config.offload_keep_recent
            t == turn[p].id
        IN  (/\ pc[p] \notin {"idle"}
             /\ config.offload_enabled
             /\ L > config.offload_message_threshold
             /\ 1 <= keep /\ keep < L) =>
                /\ nm = turn[p].before.messages \o <<UserMsg(t), AsstMsg(t)>>
                /\ IF pc[p] = "offload"
                   THEN ChunksOf(t) = {} /\ lastSave[turn[p].session].turn # t
                   ELSE /\ Cardinality(ChunksOf(t)) = 1
                        /\ \A i \in ChunksOf(t) :
                              /\ offloaded[i].messages = SubSeq(nm, 1, L - keep)
                              /\ offloaded[i].message_count = L - keep
                /\ pc[p] \notin {"offload", "save_short_term"} =>
                      /\ lastSave[turn[p].session] =
                            [turn |-> t, messages |-> SubSeq(nm, L - keep + 1, L)]
                      /\ \A i \in ChunksOf(t) :
                            offloaded[i].messages \o lastSave[turn[p].session].messages = nm
                      /\ keep <= config.max_messages =>
                            shortTerm[turn[p].session].messages =
                                SubSeq(nm, L - keep + 1, L)

\* 15 messages, threshold 12, keep 5: 10 archived and 5 saved
C5_Witness ==
    \E p \in Procs :
        /\ pc[p] = "done"
        /\ Len(turn[p].new_messages) = 15
        /\ config.offload_enabled
        /\ config.offload_message_threshold = 12
        /\ config.offload_keep_recent = 5
        /\ \E i \in ChunksOf(turn[p].id) : offloaded[i].message_count = 10
        /\ Len(shortTerm[turn[p].session].messages) = 5

(***************************************************************************)
(* ProceduralMemory.add_procedure called directly, one call after another  *)
(***************************************************************************)
RawUsers == {"u1", " u1 ", ""}
RawNames == {"n1", " n1 ", "n2", " "}
Details == {[description |-> "", conditions |-> <<>>],
            [description |-> "d", conditions |-> <<"c">>]}

\* lines 56-80: validation, then the document is built with a fresh id and
\* the current time
DirectAddProcedureCall(p) ==
    /\ pc[p] = "idle"
    /\ nextTurn <= env.max_turns
    /\ nextTurn' = nextTurn + 1
    /\ \E u \in RawUsers : \E name \in RawNames : \E det \in Details :
          IF ValidProcedureArgs(u, name)
          THEN /\ turn' = [turn EXCEPT ![p].id = nextTurn, ![p].user = u,
                              ![p].pending = <<[name |-> name,
                                  steps |-> <<nextTurn, 0>>,
                                  description |-> det.description,
                                  conditions |-> det.conditions,
                                  id |-> <<nextTurn, 0>>, ts |-> now]>>]
               /\ pc' = [pc EXCEPT ![p] = "update_one"]
               /\ UNCHANGED calls
          ELSE /\ Called(p, [op |-> "add_procedure", ok |-> FALSE, k |-> nextTurn])
               /\ UNCHANGED <<pc, turn>>
    /\ UNCHANGED <<config, env, compacted, now, stores, lt>>

\* lines 82-100
DirectUpdateOne(p) ==
    /\ pc[p] = "update_one"
    /\ LET q == turn[p].pending[1]
       IN  \E d \in UpsertTargets(procStore, turn[p].user, q.name) :
              procStore' = UpsertInto(procStore, d, turn[p].user, q.name, q.steps,
                                      q.description, q.conditions, q.id, q.ts)
    /\ pc' = [pc EXCEPT ![p] = "find_one"]
    /\ UNCHANGED <<config, env, compacted, now, nextTurn, exceptProcStore, ver, turn, calls, lt>>

\* lines 101-102: the id of a stored document with this user and name, or
\* the fresh id when none is found
FoundIds(u, name, fresh) ==
    IF Matching(procStore, u, name) = {} THEN {fresh}
    ELSE {d.id : d \in Matching(procStore, u, name)}

DirectFindOne(p) ==
    /\ pc[p] = "find_one"
    /\ LET q == turn[p].pending[1]
       IN  \E id \in FoundIds(turn[p].user, q.name, q.id) :
              Called(p, [op |-> "add_procedure", ok |-> TRUE, k |-> turn[p].id,
                         user_id |-> Strip(turn[p].user), name |-> Strip(q.name),
                         steps |-> q.steps, description |-> q.description,
                         conditions |-> q.conditions, fresh |-> q.id,
                         at |-> q.ts, returned |-> id])
    /\ pc' = [pc EXCEPT ![p] = "idle"]
    /\ UNCHANGED <<config, env, compacted, now, nextTurn, stores, turn, lt>>

InitProc ==
    /\ config = DefaultConfig
    /\ env = [faults |-> FALSE, max_turns |-> MaxTurns + 1, pending |-> {<<>>},
              texts |-> {"m1"}, max_ticks |-> MaxTicks, agents |-> Procs,
              cache_faults |-> FALSE, offloads |-> TRUE, ages |-> FALSE]
    /\ shortTerm = [s \in Sessions |-> NoRecord]
    /\ procStore = {}
    /\ cache = [k \in CacheKeys |-> NoEntry]
    /\ ltSearch = <<>>
    /\ InitRest

NextProc ==
    \/ DirectAddProcedureCall(1) \/ DirectUpdateOne(1) \/ DirectFindOne(1)
    \/ Tick

SpecProc == InitProc /\ [][NextProc]_vars

\* the calls of coroutine p that stored a procedure for the pair of call i
SameProcedure(p, i) ==
    {j \in 1..Len(calls[p]) :
        /\ calls[p][j].ok
        /\ calls[p][j].user_id = calls[p][i].user_id
        /\ calls[p][j].name = calls[p][i].name}

First(S) == CHOOSE i \in S : \A j \in S : i <= j
Last(S) == CHOOSE i \in S : \A j \in S : i >= j

\* C10: after add_procedure was called more than once with the same
\* (user_id, name), one procedure is stored for that pair; it has the steps,
\* description and conditions of the latest call and the id and created_at of
\* the first call, and every one of the calls returned that id.
C10_UpsertKeepsIdentity ==
    \A p \in Procs :
        pc[p] = "idle" =>
            \A i \in 1..Len(calls[p]) :
                calls[p][i].ok =>
                    LET c == calls[p]
                        same == SameProcedure(p, i)
                        stored == Matching(procStore, c[i].user_id, c[i].name)
                    IN  /\ Cardinality(stored) = 1
                        /\ \A d \in stored :
                              /\ d.steps = c[Last(same)].steps
                              /\ d.description = c[Last(same)].description
                              /\ d.conditions = c[Last(same)].conditions
                              /\ d.id = c[First(same)].fresh
                              /\ d.created_at = c[First(same)].at
                              /\ d.updated_at = c[Last(same)].at
                              /\ c[i].returned = d.id

\* two calls for one pair, at different times, with different steps,
\* description and conditions
C10_Witness ==
    \E p \in Procs :
        /\ pc[p] = "idle"
        /\ \E i, j \in 1..Len(calls[p]) :
              /\ i < j
              /\ calls[p][i].ok /\ calls[p][j].ok
              /\ j \in SameProcedure(p, i)
              /\ calls[p][i].steps # calls[p][j].steps
              /\ calls[p][i].description # calls[p][j].description
              /\ calls[p][i].at < calls[p][j].at
              /\ calls[p][j].returned = calls[p][i].fresh
              /\ Cardinality(procStore) = 1

(***************************************************************************)
(* ProceduralMemory.add_procedure called by two coroutines at once         *)
(***************************************************************************)
\* The collection has no unique index on (user_id, name): the store creates
\* none.  The server runs update_one(..., upsert=True) as a query followed by
\* a write; without a unique index two upserts that both found no document
\* both insert.

\* the server's query for update_one's filter: a matching document, or none
ServerUpsertMatch(p) ==
    /\ pc[p] = "update_one"
    /\ LET q == turn[p].pending[1]
       IN  \E d \in UpsertTargets(procStore, turn[p].user, q.name) :
              turn' = [turn EXCEPT ![p].pending = <<q, d>>]
    /\ pc' = [pc EXCEPT ![p] = "update_one_write"]
    /\ UNCHANGED <<config, env, compacted, now, nextTurn, stores, calls, lt>>

\* the server's write: $set on the document it matched, as the collection
\* holds it now, or the insert of $set and $setOnInsert when it matched none
ServerUpsertApply(store, d, u, name, steps, description, conditions, id, ts) ==
    IF d = NoDoc
    THEN store \cup {[id |-> id, user_id |-> Strip(u), name |-> Strip(name),
                      steps |-> steps, description |-> description,
                      conditions |-> conditions,
                      created_at |-> ts, updated_at |-> ts]}
    ELSE {IF c.id = d.id
          THEN [c EXCEPT !.steps = steps, !.description = description,
                         !.conditions = conditions, !.updated_at = ts]
          ELSE c : c \in store}

ServerUpsertWrite(p) ==
    /\ pc[p] = "update_one_write"
    /\ LET q == turn[p].pending[1]
           d == turn[p].pending[2]
       IN  procStore' = ServerUpsertApply(procStore, d, turn[p].user, q.name,
                                          q.steps, q.description, q.conditions,
                                          q.id, q.ts)
    /\ pc' = [pc EXCEPT ![p] = "find_one"]
    /\ UNCHANGED <<config, env, compacted, now, nextTurn, exceptProcStore, ver, turn, calls, lt>>

InitProcConc ==
    /\ config = DefaultConfig
    /\ env = [faults |-> FALSE, max_turns |-> MaxTurns, pending |-> {<<>>},
              texts |-> {"m1"}, max_ticks |-> 0, agents |-> Procs,
              cache_faults |-> FALSE, offloads |-> TRUE, ages |-> FALSE]
    /\ shortTerm = [s \in Sessions |-> NoRecord]
    /\ procStore = {}
    /\ cache = [k \in CacheKeys |-> NoEntry]
    /\ ltSearch = <<>>
    /\ InitRest

NextProcConc ==
    \E p \in Procs :
       \/ DirectAddProcedureCall(p)
       \/ ServerUpsertMatch(p) \/ ServerUpsertWrite(p)
       \/ DirectFindOne(p)

SpecProcConc == InitProcConc /\ [][NextProcConc]_vars

\* C11: in every reachable state, concurrent add_procedure calls included,
\* the procedure store holds at most one record for each pair of trimmed
\* user_id and trimmed name.
C11_OnePerUserAndName ==
    \A d1, d2 \in procStore :
       (d1.user_id = d2.user_id /\ d1.name = d2.name) => d1 = d2

\* what holds without an index: a pair has two records only when two
\* upserts overlapped, each inserting the id it made itself
C11_DuplicatesOnlyFromOverlap ==
    \A d1, d2 \in procStore :
       (d1.user_id = d2.user_id /\ d1.name = d2.name /\ d1 # d2) =>
           /\ d1.id # d2.id
           /\ d1.id[1] # d2.id[1]

(***************************************************************************)
(* Concurrent turns: two coroutines build and persist, healthy backends    *)
(***************************************************************************)
\* an entry an earlier save left in the search index
OldMemory == [user_id |-> "u1", session_id |-> "s1",
              messages |-> MessagesForMem0(<<UserMsg(0), AsstMsg(0)>>),
              intent_history |-> <<<<"m1", 0>>>>, call |-> 0]

\* two turns of one session that may overlap
InitOverlap ==
    /\ config = DefaultConfig
    /\ env = [faults |-> FALSE, max_turns |-> MaxTurns, pending |-> {<<>>},
              texts |-> {"m1"}, max_ticks |-> 0, agents |-> Procs,
              cache_faults |-> FALSE, offloads |-> TRUE, ages |-> FALSE]
    /\ \E n \in {2, MaxPre - 2} :
          shortTerm = [s \in Sessions |->
                          IF s = "s1" THEN OldRecord(n) ELSE NoRecord]
    /\ procStore = {OldProc}
    /\ ltSearch = <<>>

\* two turns with either message while the clock runs past the cache TTL
InitRepeated ==
    /\ \E present \in BOOLEAN :
          config = [DefaultConfig EXCEPT !.cache_present = present]
    /\ env = [faults |-> FALSE, max_turns |-> MaxTurns, pending |-> {<<>>},
              texts |-> Texts, max_ticks |-> MaxTicks, agents |-> {},
              cache_faults |-> FALSE, offloads |-> TRUE, ages |-> FALSE]
    /\ shortTerm = [s \in Sessions |-> NoRecord]
    /\ procStore = {}
    /\ \E old \in {<<>>, <<OldMemory>>} : ltSearch = old

InitConc ==
    /\ InitOverlap \/ InitRepeated
    /\ cache = [k \in CacheKeys |-> NoEntry]
    /\ InitRest

NextConc ==
    \/ \E p \in Procs :
          \/ BuildStart(p) \/ Build(p) \/ RunAgent(p)
          \/ AfterTurnOk(p) \/ LongTermSaveOk(p)
    \/ Tick

SpecConc == InitConc /\ [][NextConc]_vars

\* turns of coroutine 2 that save procedures for a user who has one
\* already, while coroutine 1 builds
InitSaving ==
    /\ config = DefaultConfig
    /\ env = [faults |-> FALSE, max_turns |-> MaxConcTurns,
              pending |-> AnyNames(MaxSavingPending),
              texts |-> {"m1"}, max_ticks |-> 0, agents |-> {2},
              cache_faults |-> FALSE, offloads |-> TRUE, ages |-> FALSE]
    /\ shortTerm = [s \in Sessions |->
                       IF s = "s1" THEN OldRecord(MaxPre - 2) ELSE NoRecord]
    /\ procStore = {OldProc}
    /\ ltSearch = <<>>
    /\ cache = [k \in CacheKeys |-> NoEntry]
    /\ InitRest

AfterTurnProceduresOk(p) == AddProcedureOk(p) \/ OnProcedureSavedOk(p)

NextSaving ==
    \E p \in Procs :
       \/ BuildStart(p) \/ Build(p) \/ RunAgent(p)
       \/ AfterTurnOk(p) \/ AfterTurnProceduresOk(p) \/ LongTermSaveOk(p)

SpecSaving == InitSaving /\ [][NextSaving]_vars

(***************************************************************************)
(* after_turn with failing backends, over either memory object: one whose  *)
(* offload_context is offload_messages, or the MemoryManager               *)
(***************************************************************************)
InitPersist ==
    /\ config = DefaultConfig
    /\ \E off \in BOOLEAN :
          env = [faults |-> TRUE, max_turns |-> MaxFaultTurns,
                 pending |-> AlternatingNames(MaxPending),
                 texts |-> {"m1"}, max_ticks |-> MaxTicks, agents |-> Procs,
                 cache_faults |-> FALSE, offloads |-> off, ages |-> FALSE]
    /\ \E n \in {0, MaxPre - 2} :
          shortTerm = [s \in Sessions |->
                          IF s = "s1" /\ n > 0 THEN OldRecord(n) ELSE NoRecord]
    /\ procStore = {OldProc}
    /\ cache = [k \in CacheKeys |-> NoEntry]
    /\ ltSearch = <<>>
    /\ InitRest

NextPersist ==
    StartTurn(1) \/ AfterTurn(1) \/ OffloadMissing(1) \/ LongTermSave(1)

SpecPersist == InitPersist /\ [][NextPersist]_vars

(***************************************************************************)
(* Builds over stores that do not change, with a cache that may fail       *)
(***************************************************************************)
\* a session record that holds no messages
EmptyRecord == [present |-> TRUE, messages |-> <<>>, last_intent |-> 0,
                expires |-> DefaultShortTermTtl]

\* compaction off, on with the default limits, on with limits a small
\* context exceeds
CompactionSettings ==
    {[enabled |-> FALSE, per_part |-> DefaultCompactionMaxCharsPerPart,
      total |-> DefaultCompactionMaxTotalChars],
     [enabled |-> TRUE, per_part |-> DefaultCompactionMaxCharsPerPart,
      total |-> DefaultCompactionMaxTotalChars],
     [enabled |-> TRUE, per_part |-> 40, total |-> 120]}

\* what the stores hold: nothing, a session without messages, or a
\* session with messages, a memory and a procedure
StoredContexts ==
    {[short_term |-> NoRecord, long_term |-> <<>>, procedures |-> {}],
     [short_term |-> EmptyRecord, long_term |-> <<>>, procedures |-> {}],
     [short_term |-> OldRecord(MaxPre - 2), long_term |-> <<OldMemory>>,
      procedures |-> {OldProc}]}

\* the entries a build for user u1 and message m1 left in the cache when
\* the stores held a memory and a procedure
LeftByEarlierBuild ==
    [k \in CacheKeys |->
        IF k = LtKey("u1", "m1")
        THEN [present |-> TRUE, value |-> <<Mem0ResultToItem(OldMemory)>>,
              expires |-> DefaultCacheTtl, writer |-> 0, as_of |-> 0,
                 fetched_at |-> 0]
        ELSE IF k = ProcKey("u1") THEN OldProcEntry
        ELSE NoEntry]

InitBuild ==
    /\ \E filter \in BOOLEAN : \E present \in BOOLEAN :
       \E c \in CompactionSettings :
          config = [DefaultConfig EXCEPT
                       !.filter_enabled = filter,
                       !.cache_present = present,
                       !.compaction_enabled = c.enabled,
                       !.compaction_max_chars_per_part = c.per_part,
                       !.compaction_max_total_chars = c.total]
    /\ env = [faults |-> FALSE, max_turns |-> MaxFaultTurns,
              pending |-> {<<>>}, texts |-> {"m1"},
              max_ticks |-> MaxTicks - 2, agents |-> {},
              cache_faults |-> TRUE, offloads |-> TRUE, ages |-> FALSE]
    /\ \E m \in StoredContexts :
          /\ shortTerm = [s \in Sessions |->
                             IF s = "s1" THEN m.short_term ELSE NoRecord]
          /\ ltSearch = m.long_term
          /\ procStore = m.procedures
          /\ cache \in {[k \in CacheKeys |-> NoEntry]} \cup
                (IF m.procedures = {} THEN {} ELSE {LeftByEarlierBuild})
    /\ InitRest

\* a caller that took the BuildResult and runs no turn with it
DirectBuildEnd(p) ==
    /\ pc[p] \in {"built", "b_raised"}
    /\ pc' = [pc EXCEPT ![p] = "idle"]
    /\ UNCHANGED <<config, env, compacted, now, nextTurn, stores, turn, calls, lt>>

NextBuild ==
    \/ BuildStart(1) \/ Build(1) \/ BuildCacheFail(1) \/ DirectBuildEnd(1)
    \/ CacheLost
    \/ Tick

SpecBuild == InitBuild /\ [][NextBuild]_vars

(***************************************************************************)
(* Properties of after_turn                                                *)
(***************************************************************************)
BestEffortOps == {"add_episode", "add_fact", "add_procedure", "on_procedure_saved"}

HasCall(p, op, ok) ==
    \E i \in 1..Len(calls[p]) : calls[p][i].op = op /\ calls[p][i].ok = ok

Attempts(p, op, k) ==
    Cardinality({i \in 1..Len(calls[p]) : calls[p][i].op = op /\ calls[p][i].k = k})

\* the stores hold no long-term record of turn t
NoLongTermOf(t) ==
    /\ \A i \in 1..Len(ltDurable) : ltDurable[i].call # t
    /\ \A i \in 1..Len(ltSearch) : ltSearch[i].call # t

\* the stores hold no episode, fact or procedure written by turn t
NoBestEffortOf(t) ==
    /\ \A i \in 1..Len(episodes) : episodes[i].intent # t
    /\ \A i \in 1..Len(facts) : facts[i].text[2] # t
    /\ \A d \in procStore : d.steps[1] # t

\* C1: the short-term and the long-term save are hard dependencies, in that
\* order.  When save_short_term raises, after_turn raises that error and no
\* long-term, episode, fact or procedure write is attempted; when
\* save_long_term raises, after_turn raises that error, no episode, fact or
\* procedure write is attempted, and the short-term record is already the one
\* of the new turn.
C1_HardSavesPropagate ==
    \A p \in Procs :
        LET c == calls[p]
            t == turn[p].id
        IN  /\ HasCall(p, "save_short_term", FALSE) =>
                  /\ pc[p] = "raised"
                  /\ turn[p].error = "short_term_write"
                  /\ c[Len(c)].op = "save_short_term"
                  /\ lt[p].pc = "none"
                  /\ NoLongTermOf(t)
                  /\ NoBestEffortOf(t)
            /\ HasCall(p, "save_long_term", FALSE) =>
                  /\ pc[p] = "raised"
                  /\ turn[p].error = "long_term_write"
                  /\ c[Len(c)].op = "save_long_term"
                  /\ NoBestEffortOf(t)
                  /\ shortTerm[turn[p].session].last_intent = t
                  /\ shortTerm[turn[p].session].messages = turn[p].to_save
            /\ \A i \in 1..Len(c) :
                  /\ c[i].op = "save_long_term" =>
                        i > 1 /\ c[i - 1].op = "save_short_term" /\ c[i - 1].ok
                  /\ c[i].op \in BestEffortOps =>
                        /\ HasCall(p, "save_short_term", TRUE)
                        /\ HasCall(p, "save_long_term", TRUE)
            /\ lt[p].pc # "none" => HasCall(p, "save_short_term", TRUE)
            /\ pc[p] = "raised" =>
                  /\ turn[p].error \in {"short_term_write", "long_term_write"}
                  /\ ~c[Len(c)].ok

\* the long-term save failed after the short-term record was replaced
C1_Witness ==
    \E p \in Procs :
        /\ pc[p] = "raised"
        /\ turn[p].error = "long_term_write"
        /\ HasCall(p, "offload_context", TRUE)
        /\ shortTerm[turn[p].session].last_intent = turn[p].id

\* C2: after both hard saves, no failure of add_episode, add_fact, an
\* add_procedure or its callback makes after_turn raise or keeps another
\* best-effort write from being attempted: when after_turn returns, the
\* episode, the fact and every pending procedure were attempted exactly once.
C2_BestEffortIsolated ==
    \A p \in Procs :
        (HasCall(p, "save_short_term", TRUE) /\ HasCall(p, "save_long_term", TRUE)) =>
            /\ pc[p] \in {"add_episode", "add_fact", "add_procedure",
                          "on_procedure_saved", "done"}
            /\ turn[p].error = "none"
            /\ Attempts(p, "add_episode", 0) = (IF pc[p] = "add_episode" THEN 0 ELSE 1)
            /\ Attempts(p, "add_fact", 0) =
                  (IF pc[p] \in {"add_episode", "add_fact"} THEN 0 ELSE 1)
            /\ \A k \in 1..Len(turn[p].pending) :
                  Attempts(p, "add_procedure", k) =
                      (IF \/ pc[p] \in {"add_episode", "add_fact"}
                          \/ pc[p] = "add_procedure" /\ k >= turn[p].k
                          \/ pc[p] = "on_procedure_saved" /\ k > turn[p].k
                       THEN 0 ELSE 1)
            /\ \A i \in 1..Len(calls[p]) :
                  calls[p][i].op = "add_procedure" =>
                      calls[p][i].k \in 1..Len(turn[p].pending)

\* after_turn returned although the episode, the fact, the first procedure
\* and the callback of the second procedure all failed
C2_Witness ==
    \E p \in Procs :
        /\ pc[p] = "done"
        /\ Len(turn[p].pending) = 2
        /\ HasCall(p, "add_episode", FALSE)
        /\ HasCall(p, "add_fact", FALSE)
        /\ \E i, j \in 1..Len(calls[p]) :
              /\ calls[p][i] = [op |-> "add_procedure", ok |-> FALSE, k |-> 1]
              /\ calls[p][j] = [op |-> "on_procedure_saved", ok |-> FALSE, k |-> 2]

\* C7: on_procedure_saved is invoked right after every add_procedure that
\* succeeded, before the next pending procedure, and deletes the ("proc",
\* user_id) cache entry; it is not invoked after an add_procedure that failed.
C7_InvalidateAfterEachSave ==
    \A p \in Procs :
        LET c == calls[p]
        IN  /\ \A i \in 1..Len(c) :
                  /\ c[i].op = "on_procedure_saved" =>
                        /\ i > 1
                        /\ c[i - 1] = [op |-> "add_procedure", ok |-> TRUE, k |-> c[i].k]
                  /\ (c[i].op = "add_procedure" /\ c[i].ok) =>
                        IF i = Len(c)
                        THEN pc[p] = "on_procedure_saved" /\ turn[p].k = c[i].k
                        ELSE c[i + 1].op = "on_procedure_saved" /\ c[i + 1].k = c[i].k
                  /\ (c[i].op = "add_procedure" /\ ~c[i].ok /\ i < Len(c)) =>
                        c[i + 1].op # "on_procedure_saved"
            /\ (c # <<>> /\ c[Len(c)] = [op |-> "on_procedure_saved", ok |-> TRUE,
                                         k |-> c[Len(c)].k]) =>
                  ~cache[ProcKey(turn[p].user)].present

\* the first procedure failed, the second was saved and its callback ran
C7_Witness ==
    \E p \in Procs :
        /\ Len(calls[p]) >= 3
        /\ calls[p][Len(calls[p]) - 2] = [op |-> "add_procedure", ok |-> FALSE, k |-> 1]
        /\ calls[p][Len(calls[p]) - 1] = [op |-> "add_procedure", ok |-> TRUE, k |-> 2]
        /\ calls[p][Len(calls[p])] = [op |-> "on_procedure_saved", ok |-> TRUE, k |-> 2]
        /\ procStore # {}

(***************************************************************************)
(* Properties of concurrent turns                                          *)
(***************************************************************************)
\* build i had returned when build j was called
Sequential(i, j) == i # j /\ i <= built[j].after

SameKey(i, j) == built[i].user = built[j].user /\ built[i].text = built[j].text

\* build j read the "lt" entry before the TTL of build i's write ran out
WithinTtl(i, j) == built[j].lt_get_at < built[i].lt_set_at + config.cache_ttl

\* C6 as stated: two builds with the same user and message, the second
\* called after the first returned and inside the TTL window of the first's
\* cache write, call get_relevant_history at most once between them,
\* whatever the search returned
C6_AtMostOneSearch ==
    \A i, j \in 1..Len(built) :
       (/\ config.cache_present
        /\ Sequential(i, j) /\ SameKey(i, j)
        /\ built[i].searches = 1 => WithinTtl(i, j))
       => built[i].searches + built[j].searches <= 1

\* C6, amended: when the second build reads the entry the first one wrote,
\* inside its TTL, it does not search and returns the first one's result
\* if that result was a non-empty list; if the first search returned the
\* empty list the second build searches again
C6_OneSearchWhenNonEmpty ==
    \A i, j \in 1..Len(built) :
       (/\ config.cache_present
        /\ Sequential(i, j) /\ SameKey(i, j)
        /\ built[i].searches = 1
        /\ WithinTtl(i, j)
        /\ built[j].lt_seen = built[i].id)
       => IF built[i].long_term # <<>>
          THEN /\ built[j].searches = 0
               /\ built[j].long_term = built[i].long_term
          ELSE built[j].searches = 1

C6_Witness ==
    \E i, j \in 1..Len(built) :
       /\ config.cache_present
       /\ Sequential(i, j) /\ SameKey(i, j)
       /\ built[i].searches = 1 /\ built[i].long_term # <<>>
       /\ WithinTtl(i, j)
       /\ built[j].lt_seen = built[i].id
       /\ built[j].searches = 0
       /\ now > 0

\* C8: a build called after a procedure save and its cache invalidation had
\* completed never returns a cached procedure list that was read from the
\* store before that save
C8_NoStaleProcedures ==
    \A i \in 1..Len(built) :
       built[i].proc_cached => built[i].proc_as_of >= built[i].need

\* coroutines p and q ran overlapping turns of one session, both saved,
\* and p's save is the latest save of the session
Overlapped(p, q) ==
    /\ p # q
    /\ turn[p].id # 0 /\ turn[q].id # 0
    /\ turn[p].session = turn[q].session
    /\ turn[p].before = turn[q].before
    /\ HasCall(p, "save_short_term", TRUE)
    /\ HasCall(q, "save_short_term", TRUE)
    /\ lastSave[turn[p].session].turn = turn[p].id

\* C9: after two overlapping turns the short-term record is the one the
\* later save wrote: the snapshot plus that turn's two messages (cut as
\* every save cuts it), and nothing of the other turn
C9_LastWriterWins ==
    \A p, q \in Procs :
       Overlapped(p, q) =>
          LET r == shortTerm[turn[p].session]
              pair == <<UserMsg(turn[p].id), AsstMsg(turn[p].id)>>
          IN  /\ r.present
              /\ r.last_intent = turn[p].id
              /\ r.messages = LastN(turn[p].to_save, config.max_messages)
              /\ r.messages = LastN(MessagesToSave(turn[p].before.messages \o pair),
                                    config.max_messages)
              /\ ~OffloadTriggered(turn[p].new_messages)
                    => r.messages = turn[p].before.messages \o pair
              /\ \A i \in 1..Len(r.messages) : r.messages[i].turn # turn[q].id

C9_Witness ==
    \E p, q \in Procs :
       /\ Overlapped(p, q)
       /\ ~OffloadTriggered(turn[p].new_messages)
       /\ turn[p].before.messages # <<>>
       /\ turn[p].id < turn[q].id

(***************************************************************************)
(* Properties of LongTermMemory.save and MemoryManager.save_long_term      *)
(***************************************************************************)
HasDurableOf(t) == \E i \in 1..Len(ltDurable) : ltDurable[i].call = t
HasSearchOf(t) == \E i \in 1..Len(ltSearch) : ltSearch[i].call = t

\* C12: a call of save or of save_long_term with an empty messages list
\* returns without error and creates neither a durable record nor a
\* search-index entry, whether or not the backends work.
C12_EmptySaveIsNoOp ==
    \A p \in Procs :
       /\ \A i \in 1..Len(calls[p]) :
             calls[p][i].n = 0 =>
                /\ calls[p][i].ok
                /\ NoLongTermOf(calls[p][i].k)
       /\ (lt[p].call # 0 /\ lt[p].messages = <<>>) =>
             /\ lt[p].pc \in {"returned", "none"}
             /\ NoLongTermOf(lt[p].call)

\* both entry points returned from an empty list while Mongo was down
C12_Witness ==
    /\ \E p, q \in Procs :
          /\ \E i \in 1..Len(calls[p]) :
                calls[p][i].op = "save" /\ calls[p][i].n = 0
          /\ \E j \in 1..Len(calls[q]) :
                calls[q][j].op = "save_long_term" /\ calls[q][j].n = 0
    /\ ~ltConn.mongo
    /\ ltDurable = <<>>

\* C13: a save with messages never returns normally without the durable
\* record of its turn: when the durable store cannot be reached or the
\* insert fails, save raises, and save_long_term raises the write error
\* out of after_turn.
C13_NoReturnWithoutDurable ==
    \A p \in Procs :
       /\ (lt[p].pc \in {"ensure_mem0", "mem0_add", "returned"}
             /\ lt[p].messages # <<>>) => HasDurableOf(lt[p].call)
       /\ lt[p].pc = "raised" => ~HasDurableOf(lt[p].call)
       /\ HasCall(p, "save_long_term", TRUE) => HasDurableOf(turn[p].id)
       /\ HasCall(p, "save_long_term", FALSE) =>
             /\ ~HasDurableOf(turn[p].id)
             /\ pc[p] = "raised"
             /\ turn[p].error = "long_term_write"

\* Mongo could not be reached: the write error left after_turn
C13_Witness ==
    \E p \in Procs :
       /\ pc[p] = "raised"
       /\ turn[p].error = "long_term_write"
       /\ HasCall(p, "save_long_term", FALSE)
       /\ ~ltConn.mongo
       /\ ltDurable = <<>>

\* C14: when the durable insert succeeded and mem0 cannot be initialised or
\* its add fails, save returns normally: the durable record of the turn
\* exists, no search entry of the turn exists, no error reaches after_turn,
\* which goes on to its best-effort writes.
C14_SearchFailureSwallowed ==
    \A p \in Procs :
       (lt[p].warned /\ lt[p].call = turn[p].id) =>
          /\ HasDurableOf(lt[p].call)
          /\ ~HasSearchOf(lt[p].call)
          /\ lt[p].pc \in {"returned", "none"}
          /\ turn[p].error = "none"
          /\ pc[p] \in {"await_long_term", "add_episode", "add_fact",
                        "add_procedure", "on_procedure_saved", "done"}
          /\ lt[p].pc = "none" => HasCall(p, "save_long_term", TRUE)

\* mem0 failed and after_turn ran to its end, writing episode and fact
C14_Witness ==
    \E p \in Procs :
       /\ lt[p].warned /\ lt[p].call = turn[p].id
       /\ pc[p] = "done"
       /\ HasCall(p, "add_episode", TRUE)
       /\ HasCall(p, "add_fact", TRUE)
       /\ HasDurableOf(turn[p].id)
       /\ ltSearch = <<>>

(***************************************************************************)
(* apply_context_compaction called directly                                *)
(***************************************************************************)
\* the k-th character of part i: no two characters of the input are equal,
\* and none is a newline
PartChar(i, k) == 1000 * i + k
PartOfLength(i, n) == [k \in 1..n |-> PartChar(i, k)]

PartLengths == {0, 1, 3, 60, 120}
PartLimits == {0, 2, 50, 200}
TotalLimits == {0, 1, 50, 99, 100, 101, 150, 300}

\* the lists of at most MaxParts parts with lengths from PartLengths
PartLists ==
    UNION {{[i \in 1..n |-> PartOfLength(i, f[i])] : f \in [1..n -> PartLengths]}
             : n \in 0..MaxParts}

CallCompaction ==
    /\ ~compacted.called
    /\ compacted' = [compacted EXCEPT
          !.called = TRUE,
          !.result = ApplyContextCompaction(compacted.context_parts,
                                            compacted.max_chars_per_part,
                                            compacted.max_total_chars)]
    /\ UNCHANGED <<config, env, now, nextTurn, stores, pc, turn, calls, lt>>

InitCompaction ==
    /\ \E parts \in PartLists : \E per_part \in PartLimits :
       \E total \in TotalLimits :
          compacted = [context_parts |-> parts, max_chars_per_part |-> per_part,
                       max_total_chars |-> total, called |-> FALSE,
                       result |-> <<>>]
    /\ config = DefaultConfig
    /\ env = [faults |-> FALSE, max_turns |-> 0, pending |-> {<<>>},
              texts |-> {"m1"}, max_ticks |-> 0, agents |-> {},
              cache_faults |-> FALSE, offloads |-> TRUE, ages |-> FALSE]
    /\ shortTerm = [s \in Sessions |-> NoRecord]
    /\ procStore = {}
    /\ cache = [k \in CacheKeys |-> NoEntry]
    /\ ltSearch = <<>>
    /\ InitState

NextCompaction == CallCompaction

SpecCompaction == InitCompaction /\ [][NextCompaction]_vars

\* the first n characters and the last n characters of a string, n >= 0
FirstChars(str, n) == SubSeq(str, 1, Min(n, Len(str)))
LastChars(str, n) == SubSeq(str, Len(str) - Min(n, Len(str)) + 1, Len(str))

\* the parts, each cut to its first n characters, joined by a blank line
RECURSIVE CutAndJoin(_, _)
CutAndJoin(parts, n) ==
    IF parts = <<>> THEN <<>>
    ELSE IF Len(parts) = 1 THEN FirstChars(parts[1], n)
    ELSE FirstChars(parts[1], n) \o <<Newline, Newline>>
           \o CutAndJoin(Tail(parts), n)

\* C15: for every list of parts and all limits max_chars_per_part >= 0 and
\* max_total_chars >= 0, the string apply_context_compaction returns is at
\* most max_total_chars long.
C15_WithinTotalBudget ==
    (compacted.called /\ compacted.max_chars_per_part >= 0
       /\ compacted.max_total_chars >= 0)
    => Len(compacted.result) <= compacted.max_total_chars

\* three parts of 120 characters cut to 50 and joined exceed a total of 150
C15_Witness ==
    /\ compacted.called
    /\ Len(compacted.context_parts) = 3
    /\ \A i \in 1..3 : Len(compacted.context_parts[i]) = 120
    /\ compacted.max_chars_per_part = 50
    /\ compacted.max_total_chars = 150
    /\ Len(compacted.result) = 50

EndsWith(str, suffix) ==
    /\ Len(str) >= Len(suffix)
    /\ SubSeq(str, Len(str) - Len(suffix) + 1, Len(str)) = suffix

\* C17: when get_short_term returned nothing or a record without messages,
\* get_relevant_history returned the empty list and list_procedures returned
\* the empty list, build returns the message itself as user_message, with
\* no preamble and no "[Current user message]" marker, under every filter,
\* cache and compaction setting; with any context it returns the marker
\* followed by the message.
C17_EmptyContextKeepsMessage ==
    \A i \in 1..Len(built) :
       LET f == built[i]
       IN  IF f.short_term.messages = <<>> /\ f.long_term = <<>>
              /\ f.procedures = <<>>
           THEN f.user_message = Chars(f.text)
           ELSE /\ f.user_message # Chars(f.text)
                /\ EndsWith(f.user_message,
                            CurrentUserMessageLabel \o Chars(f.text))

\* a record without messages, an empty search and an empty procedure list,
\* with cache, filter and compaction on
C17_Witness ==
    \E i \in 1..Len(built) :
       /\ config.cache_present /\ config.filter_enabled
       /\ config.compaction_enabled
       /\ built[i].short_term = EmptyRecord
       /\ built[i].searches = 1 /\ built[i].long_term = <<>>
       /\ ~built[i].proc_cached /\ built[i].procedures = <<>>
       /\ built[i].user_message = Chars("m1")

\* C18: build never writes an empty result to the cache: no "lt" entry and
\* no "proc" entry holds an empty list.
C18_NoEmptyListCached ==
    \A k \in CacheKeys : cache[k].present => cache[k].value # <<>>

\* what the code keeps: no "proc" entry holds an empty list
C18_NoEmptyProcCached ==
    \A u \in Users : cache[ProcKey(u)].present => cache[ProcKey(u)].value # <<>>

\* C19: the cache never makes build fail and never changes what build
\* returns: with cache reads that miss or fail, cache writes that fail and
\* entries that are lost, every build returns the BuildResult a build
\* without a cache returns from the same stores, and only the number of
\* upstream calls differs.
C19_CacheIsTransparent ==
    /\ \A p \in Procs : pc[p] # "raised"
    /\ \A i \in 1..Len(built) :
          LET f == built[i]
          IN  /\ \E l \in ListProcedures(f.user, config.procedure_max_items) :
                    LET long_term ==
                            FilterLongTerm(GetRelevant(f.user,
                                                       config.long_term_max_items))
                        procedures == FilterProcedures(l)
                    IN  /\ f.short_term = ShortTermGet(f.session)
                        /\ f.long_term = long_term
                        /\ f.procedures = procedures
                        /\ f.user_message =
                              AssembleUserMessage(
                                 ContextParts(FilterShortTerm(f.short_term.messages),
                                              long_term, procedures),
                                 f.text)
              /\ f.searches \in {0, 1}
              /\ (f.searches = 0 \/ f.proc_cached) => config.cache_present
              /\ f.cache_failed => config.cache_present

\* the cache held the search result of an earlier build, yet a later build
\* could not read it and returned the context from the stores
C19_Witness ==
    \E i \in 1..Len(built) :
       /\ built[i].cache_failed
       /\ built[i].searches = 1 /\ ~built[i].proc_cached
       /\ built[i].long_term # <<>> /\ built[i].procedures # <<>>
       /\ LET e == cache[LtKey(built[i].user, built[i].text)]
          IN  /\ e.present /\ now < e.expires
              /\ e.value # <<>>
              /\ e.writer # built[i].id

(***************************************************************************)
(* Properties of offloading in after_turn                                  *)
(***************************************************************************)
\* the call of offload_context is the last call after_turn has made
OffloadJustFailed(p) ==
    /\ calls[p] # <<>>
    /\ calls[p][Len(calls[p])] = [op |-> "offload_context", ok |-> FALSE, k |-> 0]

\* C20: a failed offload (the archive write fails, or the memory object has
\* no offload_context) does not make after_turn raise: after_turn goes on to
\* the short-term save, which is given exactly the kept messages, and raises
\* only for a failed short-term or long-term save.
C20_OffloadNeverFailsTurn ==
    \A p \in Procs :
        HasCall(p, "offload_context", FALSE) =>
            /\ turn[p].error # "no_offload_context"
            /\ OffloadJustFailed(p) => pc[p] = "save_short_term"
            /\ turn[p].to_save =
                  LastN(turn[p].new_messages, config.offload_keep_recent)
            /\ HasCall(p, "save_short_term", TRUE) =>
                  shortTerm[turn[p].session].messages = turn[p].to_save

\* the part of C20 the code keeps: a failed archive write of a memory object
\* that has offload_context leaves after_turn at the short-term save
C20_ArchiveFailureSwallowed ==
    \A p \in Procs :
        (env.offloads /\ HasCall(p, "offload_context", FALSE)) =>
            /\ OffloadJustFailed(p) => pc[p] = "save_short_term"
            /\ pc[p] = "raised" =>
                  turn[p].error \in {"short_term_write", "long_term_write"}
            /\ HasCall(p, "save_short_term", TRUE) =>
                  shortTerm[turn[p].session].messages = turn[p].to_save

\* the archive write failed and after_turn still returned
C20_ArchiveFailureReached ==
    \E p \in Procs :
        /\ pc[p] = "done"
        /\ HasCall(p, "offload_context", FALSE)
        /\ Len(shortTerm[turn[p].session].messages) = config.offload_keep_recent

(***************************************************************************)
(* The errors that leave MemoryManager                                     *)
(***************************************************************************)
\* one call of a facade operation, with a backend that may fail
FacadeCall(p) ==
    /\ pc[p] = "idle"
    /\ nextTurn <= env.max_turns
    /\ \E op \in FacadeOps : \E failure \in StoreFailures \cup {"none"} :
          Called(p, [op |-> op, failure |-> failure,
                     raised |-> FacadeRaises(op, StoreRaises(op, failure))])
    /\ nextTurn' = nextTurn + 1
    /\ UNCHANGED <<config, env, compacted, now, stores, pc, turn, lt>>

InitFacade ==
    /\ config = DefaultConfig
    /\ env = [faults |-> TRUE, max_turns |-> MaxTurns, pending |-> {<<>>},
              texts |-> {"m1"}, max_ticks |-> MaxTicks, agents |-> {},
              cache_faults |-> FALSE, offloads |-> FALSE, ages |-> FALSE]
    /\ shortTerm = [s \in Sessions |-> NoRecord]
    /\ procStore = {}
    /\ cache = [k \in CacheKeys |-> NoEntry]
    /\ ltSearch = <<>>
    /\ InitRest

NextFacade == FacadeCall(1)

SpecFacade == InitFacade /\ [][NextFacade]_vars

\* the facade category of an operation
CategoryError(op) ==
    CASE op \in ConnectOps -> "MemoryConnectionError"
      [] op \in ReadOps -> "MemoryReadError"
      [] OTHER -> "MemoryWriteError"

\* C21: every error that leaves a MemoryManager operation is the facade error
\* of the operation's category (connection, read, write), whatever failed
\* below; no store or driver exception reaches the caller.
C21_OnlyFacadeErrors ==
    \A p \in Procs : \A i \in 1..Len(calls[p]) :
        calls[p][i].raised \in {"none", CategoryError(calls[p][i].op)}

\* what the code keeps: the operations of the short-term and the long-term
\* store raise only the error of their category
C21_WrappedStoresOnly ==
    \A p \in Procs : \A i \in 1..Len(calls[p]) :
        StoreErrorOf(calls[p][i].op) \in {"ShortTermMemoryError", "LongTermMemoryError"}
            => calls[p][i].raised \in {"none", CategoryError(calls[p][i].op)}

(***************************************************************************)
(* get_relevant_history, called directly and by build, over a mem0 that    *)
(* may fail                                                                *)
(***************************************************************************)
\* one call of MemoryManager.get_relevant_history
DirectGetRelevant(p) ==
    /\ pc[p] = "idle"
    /\ nextTurn <= env.max_turns
    /\ \E u \in RawUsers : \E failure \in {"none", "init", "search"} :
          LET o == GetRelevantOutcome(u, config.long_term_max_items, failure)
          IN  /\ failure = "init" => ~ltConn.mem0
              /\ Called(p, [op |-> "get_relevant_history", user |-> u,
                            failure |-> failure,
                            raised |-> FacadeRaises("get_relevant_history", o.raised),
                            value |-> o.value,
                            mem0_before |-> ltConn.mem0, mem0_after |-> o.mem0])
              /\ ltConn' = [ltConn EXCEPT !.mem0 = o.mem0]
    /\ nextTurn' = nextTurn + 1
    /\ UNCHANGED <<config, env, compacted, now, shortTerm, offloaded, ltDurable,
                   ltSearch, episodes, facts, procStore, cache, lastSave,
                   bld, built, ver, pc, turn, lt>>

InitRelevant ==
    /\ \E cp \in BOOLEAN : config = [DefaultConfig EXCEPT !.cache_present = cp]
    /\ env = [faults |-> TRUE, max_turns |-> MaxTurns, pending |-> {<<>>},
              texts |-> {"m1"}, max_ticks |-> MaxTicks, agents |-> {},
              cache_faults |-> FALSE, offloads |-> FALSE, ages |-> FALSE]
    /\ shortTerm = [s \in Sessions |-> NoRecord]
    /\ procStore = {OldProc}
    /\ cache = [k \in CacheKeys |-> NoEntry]
    /\ ltSearch \in {<<>>, <<OldMemory>>}
    /\ InitRest

NextRelevant ==
    \/ DirectGetRelevant(1)
    \/ BuildStart(1) \/ Build(1) \/ BuildGetRelevantFail(1) \/ DirectBuildEnd(1)

SpecRelevant == InitRelevant /\ [][NextRelevant]_vars

RawFacts == {"f1", " f1 ", "f2", " "}
FactLimits == {1, 2, DefaultFactsLimit}

\* an add_fact that files the fact under the user_id as it was given
SemanticAddKeepsRawUser(store, u, fact) ==
    IF Strip(u) = "" \/ Strip(fact) = "" THEN store
    ELSE Append(store, [user_id |-> u, text |-> Strip(fact)])

\* add_fact: nothing for a blank user or fact; else mem0.add(infer=False)
\* stores the stripped fact, as one more memory of the stripped user
SemanticAdd(store, u, fact) ==
    IF Strip(u) = "" \/ Strip(fact) = "" THEN store
    ELSE Append(store, [user_id |-> Strip(u), text |-> Strip(fact)])

\* the memories mem0 holds for a user, in insertion order
FactsOf(store, u) ==
    LET F[i \in 0..Len(store)] ==
            IF i = 0 THEN <<>>
            ELSE IF store[i].user_id = u THEN Append(F[i - 1], store[i].text)
            ELSE F[i - 1]
    IN  F[Len(store)]

\* search_facts with an empty query: nothing for a blank user; else what
\* mem0.get_all(limit) returns, cut to limit.  Which memories mem0 returns
\* when the user has more than limit is not known: the oldest or the newest
GetAllFacts(store, u, limit) ==
    IF Strip(u) = "" THEN {<<>>}
    ELSE {SliceTo(FactsOf(store, Strip(u)), limit),
          SliceTo(LastN(FactsOf(store, Strip(u)), limit), limit)}

DirectAddFact(p) ==
    /\ pc[p] = "idle"
    /\ nextTurn <= env.max_turns
    /\ \E u \in RawUsers : \E fact \in RawFacts :
          /\ facts' = SemanticAdd(facts, u, fact)
          /\ Called(p, [op |-> "add_fact", user |-> u, fact |-> fact,
                        limit |-> 0, value |-> <<>>, held |-> 0])
    /\ nextTurn' = nextTurn + 1
    /\ UNCHANGED <<config, env, compacted, now, exceptFacts, pc, turn, lt>>

DirectGetAllFacts(p) ==
    /\ pc[p] = "idle"
    /\ nextTurn <= env.max_turns
    /\ \E u \in RawUsers : \E limit \in FactLimits :
       \E r \in GetAllFacts(facts, u, limit) :
          Called(p, [op |-> "get_all_facts", user |-> u, fact |-> "",
                     limit |-> limit, value |-> r,
                     held |-> Len(FactsOf(facts, Strip(u)))])
    /\ nextTurn' = nextTurn + 1
    /\ UNCHANGED <<config, env, compacted, now, stores, pc, turn, lt>>

\* the facts earlier calls left in mem0
InitFacts ==
    /\ config = DefaultConfig
    /\ env = [faults |-> FALSE, max_turns |-> MaxTurns, pending |-> {<<>>},
              texts |-> {"m1"}, max_ticks |-> MaxTicks, agents |-> {},
              cache_faults |-> FALSE, offloads |-> FALSE, ages |-> FALSE]
    /\ shortTerm = [s \in Sessions |-> NoRecord]
    /\ procStore = {}
    /\ cache = [k \in CacheKeys |-> NoEntry]
    /\ ltSearch = <<>>
    /\ now = 0
    /\ nextTurn = 1
    /\ offloaded = <<>>
    /\ ltDurable = <<>>
    /\ ltConn = [mongo |-> FALSE, mem0 |-> FALSE]
    /\ episodes = <<>>
    /\ \E old \in {<<>>, <<"f2">>, <<"f1", "f1">>} :
          facts = [i \in 1..Len(old) |-> [user_id |-> "u1", text |-> old[i]]]
    /\ pc = [p \in Procs |-> "idle"]
    /\ turn = [p \in Procs |-> NoTurn]
    /\ calls = [p \in Procs |-> <<>>]
    /\ lt = [p \in Procs |-> NoFrame]
    /\ lastSave = [s \in Sessions |-> NoSave]
    /\ bld = [p \in Procs |-> NoBuild]
    /\ built = <<>>
    /\ ver = NoVersions
    /\ compacted = NoCompaction

NextFacts == DirectAddFact(1) \/ DirectGetAllFacts(1)

SpecFacts == InitFacts /\ [][NextFacts]_vars

\* a get_all_facts with the default limit that follows an add_fact of the
\* same user_id
AddThenGetAll(p, j, i) ==
    /\ j < i
    /\ calls[p][j].op = "add_fact"
    /\ calls[p][i].op = "get_all_facts"
    /\ calls[p][i].user = calls[p][j].user

\* C23 as stated: for every non-empty user_id and fact, get_all_facts after
\* a successful add_fact returns an item whose text is the fact exactly as
\* it was given, whatever the user already has.
C23_VerbatimRoundTrip ==
    \A p \in Procs : \A i, j \in 1..Len(calls[p]) :
        (/\ AddThenGetAll(p, j, i)
         /\ calls[p][i].limit = DefaultFactsLimit
         /\ calls[p][j].user # "" /\ calls[p][j].fact # "") =>
            \E k \in 1..Len(calls[p][i].value) :
                calls[p][i].value[k] = calls[p][j].fact

\* C23 amended: for a user_id and a fact that are not blank, get_all_facts
\* after add_fact returns an item whose text is the fact without its
\* surrounding whitespace, when the user holds at most limit facts.
C23_StrippedRoundTrip ==
    \A p \in Procs : \A i, j \in 1..Len(calls[p]) :
        (/\ AddThenGetAll(p, j, i)
         /\ calls[p][i].held <= calls[p][i].limit
         /\ Strip(calls[p][j].user) # "" /\ Strip(calls[p][j].fact) # "") =>
            \E k \in 1..Len(calls[p][i].value) :
                calls[p][i].value[k] = Strip(calls[p][j].fact)

\* " f1 " was added for " u1 ", who already had "f1" twice, and came back
\* as a third "f1"
C23_Witness ==
    \E p \in Procs : \E i, j \in 1..Len(calls[p]) :
        /\ AddThenGetAll(p, j, i)
        /\ calls[p][j].user = " u1 " /\ calls[p][j].fact = " f1 "
        /\ calls[p][i].limit = DefaultFactsLimit
        /\ calls[p][i].value = <<"f1", "f1", "f1">>

(***************************************************************************)
(* ShortTermMemory.get and clear over a Redis that may fail or hold a      *)
(* value that is not JSON                                                  *)
(***************************************************************************)
\* a value under a session key that json.loads rejects
Garbage == [present |-> TRUE, messages |-> <<>>, last_intent |-> 0,
            expires |-> DefaultShortTermTtl, raw |-> "not json"]

Decodable(rec) == "raw" \notin DOMAIN rec

\* a get that answers None whenever something failed
ShortTermGetOutcomeSwallows(s, failure) ==
    IF failure = "unreachable"
    THEN [raised |-> "none", value |-> NoRecord]
    ELSE IF Decodable(ShortTermGet(s))
    THEN [raised |-> "none", value |-> ShortTermGet(s)]
    ELSE [raised |-> "none", value |-> NoRecord]

\* get, lines 139-171: a failed connect or GET, and a json.loads that fails,
\* leave as ShortTermMemoryError; a missing or expired key gives None
ShortTermGetOutcome(s, failure) ==
    IF failure = "unreachable"
    THEN [raised |-> "ShortTermMemoryError", value |-> NoRecord]
    ELSE IF Decodable(ShortTermGet(s))
    THEN [raised |-> "none", value |-> ShortTermGet(s)]
    ELSE [raised |-> "ShortTermMemoryError", value |-> NoRecord]

ShortTermGetCall(p, s) ==
    /\ pc[p] = "idle"
    /\ nextTurn <= env.max_turns
    /\ \E failure \in {"none", "unreachable"} :
          LET o == ShortTermGetOutcome(s, failure)
          IN  Called(p, [op |-> "get", session |-> s, k |-> nextTurn,
                         failure |-> failure, raised |-> o.raised,
                         value |-> o.value, at |-> now])
    /\ nextTurn' = nextTurn + 1
    /\ UNCHANGED <<config, env, compacted, now, stores, pc, turn, lt>>

\* save(session_id, {"messages": [one message]}), lines 94-110
ShortTermSaveCall(p, s) ==
    /\ pc[p] = "idle"
    /\ nextTurn <= env.max_turns
    /\ LET payload == ShortTermPayload(<<DirectMsg(nextTurn, 1)>>, nextTurn)
       IN  /\ shortTerm' = [shortTerm EXCEPT ![s] = payload]
           /\ Called(p, [op |-> "save", session |-> s, k |-> nextTurn,
                         failure |-> "none", raised |-> "none",
                         value |-> payload, at |-> now])
    /\ nextTurn' = nextTurn + 1
    /\ UNCHANGED <<config, env, compacted, now, exceptShortTerm, lastSave, pc,
                   turn, lt>>

\* clear, lines 176-180: DEL of the session's key
ShortTermClearCall(p, s) ==
    /\ pc[p] = "idle"
    /\ nextTurn <= env.max_turns
    /\ shortTerm' = [shortTerm EXCEPT ![s] = NoRecord]
    /\ Called(p, [op |-> "clear", session |-> s, k |-> nextTurn,
                  failure |-> "none", raised |-> "none",
                  value |-> NoRecord, at |-> now])
    /\ nextTurn' = nextTurn + 1
    /\ UNCHANGED <<config, env, compacted, now, exceptShortTerm, lastSave, pc,
                   turn, lt>>

\* s1 was never saved; under s2 there may be garbage
InitShortTermFaults ==
    /\ \E ttl \in {TickSeconds, DefaultShortTermTtl} :
          config = [DefaultConfig EXCEPT !.short_term_ttl = ttl]
    /\ env = [faults |-> TRUE, max_turns |-> MaxTurns + 1, pending |-> {<<>>},
              texts |-> {"m1"}, max_ticks |-> MaxTicks - 1, agents |-> {},
              cache_faults |-> FALSE, offloads |-> FALSE, ages |-> FALSE]
    /\ \E g \in {NoRecord, Garbage} :
          shortTerm = [s \in Sessions |-> IF s = "s2" THEN g ELSE NoRecord]
    /\ procStore = {}
    /\ cache = [k \in CacheKeys |-> NoEntry]
    /\ ltSearch = <<>>
    /\ InitRest

NextShortTermFaults ==
    \/ \E s \in Sessions :
          ShortTermSaveCall(1, s) \/ ShortTermGetCall(1, s) \/ ShortTermClearCall(1, s)
    \/ Tick

SpecShortTermFaults == InitShortTermFaults /\ [][NextShortTermFaults]_vars

\* the saves and clears of session s before call i
WritesBefore(c, s, i) ==
    {j \in 1..(i - 1) : c[j].session = s /\ c[j].op \in {"save", "clear"}}

CountOf(store, u) == Cardinality({i \in 1..Len(store) : store[i].user_id = u})

OddCacheTtl == TickSeconds + TickSeconds \div 2

InitStale ==
    /\ \E ttl \in {DefaultCacheTtl, OddCacheTtl} :
          config = [DefaultConfig EXCEPT !.cache_ttl = ttl]
    /\ env = [faults |-> FALSE, max_turns |-> Cardinality(Procs),
              pending |-> {<<>>},
              texts |-> {"m1"}, max_ticks |-> MaxTicks - 1, agents |-> {},
              cache_faults |-> FALSE, offloads |-> FALSE, ages |-> TRUE]
    /\ shortTerm = [s \in Sessions |-> NoRecord]
    /\ procStore = {OldProc}
    /\ cache = [k \in CacheKeys |-> NoEntry]
    /\ ltSearch = <<OldMemory>>
    /\ InitRest

NextStale ==
    \/ \E p \in Procs : BuildStart(p) \/ Build(p) \/ DirectBuildEnd(p)
    \/ Tick

SpecStale == InitStale /\ [][NextStale]_vars

\* C26 as stated: no build uses relevant-history or procedure data from the
\* cache that was fetched from its store more than ttl_seconds earlier.
C26_NeverOlderThanTtl ==
    \A i \in 1..Len(built) :
        /\ built[i].lt_hit # <<>> => built[i].lt_hit[1] <= config.cache_ttl
        /\ built[i].proc_hit # <<>> => built[i].proc_hit[1] <= config.cache_ttl

\* C26 amended: a build uses data from the cache only less than ttl_seconds
\* after the set that wrote it; the data was fetched before that set.
C26_WithinTtlOfSet ==
    /\ \A i \in 1..Len(built) :
          /\ built[i].lt_hit # <<>> =>
                /\ built[i].lt_hit[2] >= 0
                /\ built[i].lt_hit[2] < config.cache_ttl
                /\ built[i].lt_hit[1] >= built[i].lt_hit[2]
          /\ built[i].proc_hit # <<>> =>
                /\ built[i].proc_hit[2] >= 0
                /\ built[i].proc_hit[2] < config.cache_ttl
                /\ built[i].proc_hit[1] >= built[i].proc_hit[2]
    /\ \A k \in CacheKeys :
          cache[k].present => cache[k].expires <= now + config.cache_ttl

\* a build used both entries a tick after they were set
C26_Witness ==
    \E i \in 1..Len(built) :
        /\ built[i].lt_hit # <<>> /\ built[i].lt_hit[2] > 0
        /\ built[i].proc_hit # <<>> /\ built[i].proc_hit[2] > 0

(***************************************************************************)
(* apply_context_filter called directly                                    *)
(***************************************************************************)
\* h.get("score") is not None and float(h["score"]) >= long_term_min_score
ScoreAtLeast(h, min_score) == h.score # <<>> /\ h.score[1] >= min_score

\* the items of a list whose score is at least min_score, in their order
RECURSIVE SelectFrom(_, _)
SelectFrom(list, min_score) ==
    IF list = <<>> THEN <<>>
    ELSE (IF ScoreAtLeast(Head(list), min_score) THEN <<Head(list)>> ELSE <<>>)
         \o SelectFrom(Tail(list), min_score)

\* apply_context_filter, lines 19-24; long_term_min_score is <<>> for None
\* and <<x>> for the number x
ApplyContextFilter(long_term, procedures, short_term_messages, long_term_max, long_term_min_score, procedure_max, short_term_recent_n) ==
    LET cut == SliceTo(long_term, long_term_max)
    IN  [lt |-> IF long_term_min_score # <<>>
                THEN SelectFrom(cut, long_term_min_score[1]) ELSE cut,
         proc |-> SliceTo(procedures, procedure_max),
         st |-> SliceFrom(short_term_messages, 0 - short_term_recent_n)]

\* long-term items with and without a score, procedures and messages
ScoredItem(i, score) == [id |-> i, score |-> score]
LongTermLists ==
    {<<>>,
     <<ScoredItem(1, <<5>>)>>,
     <<ScoredItem(1, <<1>>), ScoredItem(2, <<5>>), ScoredItem(3, <<>>)>>,
     <<ScoredItem(1, <<3>>), ScoredItem(2, <<>>), ScoredItem(3, <<2>>),
       ScoredItem(4, <<4>>)>>}
ProcedureListLengths == {0, 2, 4}
MessageListLengths == {0, 1, 4}
MinScores == {<<>>, <<3>>}

CallFilter(p) ==
    /\ pc[p] = "idle"
    /\ calls[p] = <<>>
    /\ \E long_term \in LongTermLists :
       \E np \in ProcedureListLengths : \E ns \in MessageListLengths :
       \E long_term_max \in 0..MaxSmallCfg : \E procedure_max \in 0..MaxSmallCfg :
       \E short_term_recent_n \in 0..MaxSmallCfg : \E min_score \in MinScores :
          LET procedures == [i \in 1..np |-> [id |-> <<0, i>>]]
              messages == OldMessages(ns)
          IN  Called(p, [op |-> "apply_context_filter",
                         long_term |-> long_term, procedures |-> procedures,
                         short_term_messages |-> messages,
                         long_term_max |-> long_term_max,
                         long_term_min_score |-> min_score,
                         procedure_max |-> procedure_max,
                         short_term_recent_n |-> short_term_recent_n,
                         result |-> ApplyContextFilter(long_term, procedures,
                                        messages, long_term_max, min_score,
                                        procedure_max, short_term_recent_n)])
    /\ UNCHANGED <<config, env, compacted, now, nextTurn, stores, pc, turn, lt>>

InitFilter ==
    /\ config = DefaultConfig
    /\ env = [faults |-> FALSE, max_turns |-> MaxTurns, pending |-> {<<>>},
              texts |-> {"m1"}, max_ticks |-> MaxTicks, agents |-> {},
              cache_faults |-> FALSE, offloads |-> FALSE, ages |-> FALSE]
    /\ shortTerm = [s \in Sessions |-> NoRecord]
    /\ procStore = {}
    /\ cache = [k \in CacheKeys |-> NoEntry]
    /\ ltSearch = <<>>
    /\ InitRest

NextFilter == CallFilter(1)

SpecFilter == InitFilter /\ [][NextFilter]_vars

\* list a is list b without some of its elements, the rest in b's order
RECURSIVE IsSubsequence(_, _)
IsSubsequence(a, b) ==
    IF a = <<>> THEN TRUE
    ELSE IF b = <<>> THEN FALSE
    ELSE IF Head(a) = Head(b) THEN IsSubsequence(Tail(a), Tail(b))
    ELSE IsSubsequence(a, Tail(b))

\* C27: for all inputs and all limits >= 0 the filter returns at most
\* long_term_max long-term items, taken from the first long_term_max, at most
\* procedure_max procedures, the first ones, and at most short_term_recent_n
\* short-term messages, the most recent ones in their order; with a minimum
\* score every long-term item returned carries a score of at least that.
C27_FilterBounds ==
    \A p \in Procs : \A i \in 1..Len(calls[p]) :
        LET c == calls[p][i]
            r == c.result
        IN  /\ Len(r.lt) <= c.long_term_max
            /\ IsSubsequence(r.lt, FirstChars(c.long_term, c.long_term_max))
            /\ c.long_term_min_score = <<>> =>
                  r.lt = FirstChars(c.long_term, c.long_term_max)
            /\ c.long_term_min_score # <<>> =>
                  \A k \in 1..Len(r.lt) :
                      /\ r.lt[k].score # <<>>
                      /\ r.lt[k].score[1] >= c.long_term_min_score[1]
            /\ Len(r.proc) <= c.procedure_max
            /\ r.proc = FirstChars(c.procedures, c.procedure_max)
            /\ Len(r.st) <= c.short_term_recent_n
            /\ r.st = LastChars(c.short_term_messages, c.short_term_recent_n)

\* what the code keeps: everything of C27 but the short-term limit of 0
C27_FilterBoundsButZero ==
    \A p \in Procs : \A i \in 1..Len(calls[p]) :
        LET c == calls[p][i]
            r == c.result
        IN  /\ Len(r.lt) <= c.long_term_max
            /\ Len(r.proc) <= c.procedure_max
            /\ r.proc = FirstChars(c.procedures, c.procedure_max)
            /\ c.short_term_recent_n > 0 =>
                  r.st = LastChars(c.short_term_messages, c.short_term_recent_n)
            /\ c.short_term_recent_n = 0 => r.st = c.short_term_messages

(***************************************************************************)
(* A whole chat: build, the agent, after_turn, one coroutine               *)
(***************************************************************************)
\* BaseSupervisorService.chat, serialized: the filter and the cache on or
\* off, the
\* compaction off, on, or on with limits the context exceeds, over stores
\* that hold nothing, an empty session, or a session longer than
\* short_term_recent_n
InitChat ==
    /\ \E filter \in BOOLEAN : \E present \in BOOLEAN :
       \E c \in CompactionSettings :
          config = [DefaultConfig EXCEPT
                       !.filter_enabled = filter,
                       !.cache_present = present,
                       !.compaction_enabled = c.enabled,
                       !.compaction_max_chars_per_part = c.per_part,
                       !.compaction_max_total_chars = c.total]
    /\ env = [faults |-> FALSE, max_turns |-> MaxTurns,
              pending |-> {<<>>}, texts |-> {"m1"},
              max_ticks |-> 0, agents |-> {1},
              cache_faults |-> FALSE, offloads |-> TRUE, ages |-> FALSE]
    /\ \E m \in StoredContexts :
          /\ shortTerm = [s \in Sessions |->
                             IF s = "s1" THEN m.short_term ELSE NoRecord]
          /\ ltSearch = m.long_term
          /\ procStore = m.procedures
    /\ cache = [k \in CacheKeys |-> NoEntry]
    /\ InitRest

NextChat ==
    \/ BuildStart(1) \/ Build(1) \/ RunAgent(1)
    \/ AfterTurnOk(1) \/ LongTermSaveOk(1)

SpecChat == InitChat /\ [][NextChat]_vars

\* the context parts of a returned build, joined without any cut
UncutContext(r) ==
    Join(<<Newline, Newline>>,
         ContextParts(FilterShortTerm(r.short_term.messages),
                      r.long_term, r.procedures))

\* C28: the short_term of the BuildResult is the record the store held when
\* build read it, all messages included, whatever the filter and the
\* compaction did to the assembled message; and the after_turn that
\* receives it extends the full pre-turn list by the two messages of the turn
C28_RawShortTerm ==
    /\ pc[1] = "built" => bld[1].short_term = ShortTermGet(bld[1].session)
    /\ \A i \in 1..Len(built) :
          (pc[1] \notin {"idle", "built"} /\ turn[1].id = built[i].id) =>
             /\ turn[1].before = built[i].short_term
             /\ turn[1].new_messages =
                   built[i].short_term.messages
                      \o <<UserMsg(turn[1].id), AsstMsg(turn[1].id)>>

\* after_turn runs on a record longer than short_term_recent_n, returned
\* by a build that filtered the messages and cut the assembled context
C28_Witness ==
    /\ pc[1] = "save_short_term"
    /\ config.filter_enabled /\ config.compaction_enabled
    /\ Len(turn[1].before.messages) > config.short_term_recent_n
    /\ Len(turn[1].new_messages) = Len(turn[1].before.messages) + 2
    /\ \E i \in 1..Len(built) :
          /\ built[i].id = turn[1].id
          /\ Len(UncutContext(built[i])) > config.compaction_max_total_chars

(***************************************************************************)
(* What a cut of the assembled context keeps                               *)
(***************************************************************************)
\* Python's `sub in str`
Occurs(sub, str) ==
    \E i \in 0..(Len(str) - Len(sub)) : SubSeq(str, i + 1, i + Len(sub)) = sub

\* the build whose result is r had short-term messages to show and its
\* parts, each cut to max_chars_per_part and joined, exceeded max_total_chars
ContextWasCut(r) ==
    /\ config.compaction_enabled
    /\ FilterShortTerm(r.short_term.messages) # <<>>
    /\ Len(JoinedTruncated(
              ContextParts(FilterShortTerm(r.short_term.messages),
                           r.long_term, r.procedures),
              config.compaction_max_chars_per_part))
          > config.compaction_max_total_chars

\* limits under which the joined parts of a small context exceed
\* max_total_chars: with every part cut to 40 characters, and with whole parts
CutSettings ==
    {[per_part |-> 40, total |-> 110],
     [per_part |-> DefaultCompactionMaxCharsPerPart, total |-> 150]}

\* a session with messages alone, or with a memory and a procedure
CutContexts ==
    {[short_term |-> OldRecord(MaxPre - 2), long_term |-> <<>>,
      procedures |-> {}],
     [short_term |-> OldRecord(MaxPre - 2), long_term |-> <<OldMemory>>,
      procedures |-> {OldProc}]}

\* builds whose compaction has to cut the joined parts
InitCut ==
    /\ \E filter \in BOOLEAN : \E present \in BOOLEAN : \E c \in CutSettings :
          config = [DefaultConfig EXCEPT
                       !.filter_enabled = filter,
                       !.cache_present = present,
                       !.compaction_max_chars_per_part = c.per_part,
                       !.compaction_max_total_chars = c.total]
    /\ env = [faults |-> FALSE, max_turns |-> MaxFaultTurns,
              pending |-> {<<>>}, texts |-> {"m1"},
              max_ticks |-> MaxTicks - 2, agents |-> {},
              cache_faults |-> TRUE, offloads |-> TRUE, ages |-> FALSE]
    /\ \E m \in CutContexts :
          /\ shortTerm = [s \in Sessions |->
                             IF s = "s1" THEN m.short_term ELSE NoRecord]
          /\ ltSearch = m.long_term
          /\ procStore = m.procedures
          /\ cache \in {[k \in CacheKeys |-> NoEntry]} \cup
                (IF m.procedures = {} THEN {} ELSE {LeftByEarlierBuild})
    /\ InitRest

SpecCut == InitCut /\ [][NextBuild]_vars

\* C29: when the compaction in build cuts the assembled context, the
\* '[Recent context]' part survives in the assembled message: its label and
\* the most recent short-term message are still there
C29_RecentContextPreserved ==
    \A i \in 1..Len(built) :
       ContextWasCut(built[i]) =>
          LET kept == FilterShortTerm(built[i].short_term.messages)
          IN  /\ Occurs(RecentContextLabel, built[i].user_message)
              /\ Occurs(JsonMessage(kept[Len(kept)]), built[i].user_message)

\* what the cut of build does keep: the end of the last parts, so the
\* '[Recent context]' label, which opens the first part, is never there
C29_CutDropsRecentLabel ==
    \A i \in 1..Len(built) :
       (ContextWasCut(built[i])
          /\ config.compaction_max_total_chars > CompactionMargin) =>
          ~Occurs(RecentContextLabel, built[i].user_message)

(***************************************************************************)
(* Offloading with nothing to keep                                         *)
(***************************************************************************)
\* C30: when offloading triggers with offload_keep_recent = 0, the whole
\* extended list is archived as the chunk of the turn and the short-term
\* save is handed an empty message list
C30_KeepNothingArchivesAll ==
    \A p \in Procs :
        LET nm == turn[p].new_messages
            t == turn[p].id
            s == turn[p].session
        IN  (/\ pc[p] # "idle"
             /\ OffloadTriggered(nm)
             /\ config.offload_keep_recent = 0
             /\ lastSave[s].turn = t) =>
                /\ \E i \in ChunksOf(t) : offloaded[i].messages = nm
                /\ lastSave[s].messages = <<>>

\* what the code does with offload_keep_recent = 0: new_messages[:-0] is
\* empty, so no chunk is written, and new_messages[-0:] is the whole
\* extended list, which is handed to the short-term save
C30_KeepNothingArchivesNothing ==
    \A p \in Procs :
        LET nm == turn[p].new_messages
            t == turn[p].id
            s == turn[p].session
        IN  (/\ pc[p] # "idle"
             /\ OffloadTriggered(nm)
             /\ config.offload_keep_recent = 0
             /\ lastSave[s].turn = t) =>
                /\ ChunksOf(t) = {}
                /\ lastSave[s].messages = nm

(***************************************************************************)
(* Turns that do not offload, around the cap of the short-term save        *)
(***************************************************************************)
\* serialized turns of one session; offloading off, on with the default
\* threshold, or on with a threshold the list never exceeds; the record an
\* earlier save left is absent, around the default threshold, or as long
\* as the store lets it be
InitCap ==
    /\ \E en \in BOOLEAN :
       \E thr \in {DefaultOffloadThreshold, ShortTermSaveCap + MaxPre} :
          config = [DefaultConfig EXCEPT !.offload_enabled = en,
                                         !.offload_message_threshold = thr]
    /\ env = [faults |-> FALSE, max_turns |-> MaxTurns, pending |-> {<<>>},
              texts |-> {"m1"}, max_ticks |-> 0, agents |-> Procs,
              cache_faults |-> FALSE, offloads |-> TRUE, ages |-> FALSE]
    /\ \E n \in {0, DefaultOffloadThreshold - 2, DefaultOffloadThreshold - 1}
                  \cup ((ShortTermSaveCap - 2)..DefaultMaxMessages) :
          shortTerm = [s \in Sessions |->
                          IF s = "s1" /\ n > 0 THEN OldRecord(n) ELSE NoRecord]
    /\ procStore = {}
    /\ cache = [k \in CacheKeys |-> NoEntry]
    /\ ltSearch = <<>>
    /\ InitRest

SpecCap == InitCap /\ [][NextOffload]_vars

\* C31: when offloading is disabled or the extended list of length L does
\* not exceed the threshold, the short-term save is handed exactly the last
\* min(20, L) messages of pre-turn messages ++ [user, assistant], in that
\* order, and the turn writes nothing to the offload store
C31_NoOffloadSavesLast20 ==
    \A p \in Procs :
        LET nm == turn[p].before.messages
                     \o <<UserMsg(turn[p].id), AsstMsg(turn[p].id)>>
            L == Len(nm)
            t == turn[p].id
            s == turn[p].session
        IN  (/\ pc[p] # "idle"
             /\ ~config.offload_enabled
                   \/ L <= config.offload_message_threshold) =>
                /\ ChunksOf(t) = {}
                /\ pc[p] # "offload"
                /\ lastSave[s].turn = t =>
                      /\ lastSave[s].messages =
                            SubSeq(nm, L - Min(ShortTermSaveCap, L) + 1, L)
                      /\ shortTerm[s].messages = lastSave[s].messages

\* a turn over 20 pre-turn messages has saved 20 of the 22, and offloaded
\* nothing
C31_Witness ==
    \E p \in Procs :
        /\ pc[p] = "done"
        /\ Len(turn[p].new_messages) = ShortTermSaveCap + 2
        /\ ~OffloadTriggered(turn[p].new_messages)
        /\ Len(lastSave[turn[p].session].messages) = ShortTermSaveCap
        /\ lastSave[turn[p].session].turn = turn[p].id
        /\ ChunksOf(turn[p].id) = {}

(***************************************************************************)
(* Lazy connections: _ensure_mongo of a store shared by two coroutines,    *)
(* and offload_messages                                                    *)
(***************************************************************************)
\* In this specification ltConn is [client, created, offload_created]:
\* client is the store's _mongo_client (0 for None, else the number of the
\* AsyncIOMotorClient it holds), created the clients constructed by
\* _ensure_mongo since __init__, offload_created those constructed by
\* offload_messages.  lt[p].call is the local `client` of _ensure_mongo.

\* an operation of the store is called; _ensure_mongo runs up to its first
\* await: it returns when the client is set, else it constructs a client
\* and awaits the ping
EnsureMongoEnter(p) ==
    /\ pc[p] = "idle"
    /\ nextTurn <= env.max_turns
    /\ nextTurn' = nextTurn + 1
    /\ pc' = [pc EXCEPT ![p] = "store_op"]
    /\ IF ltConn.client # 0
       THEN /\ lt' = [lt EXCEPT ![p] = [NoFrame EXCEPT !.pc = "use"]]
            /\ UNCHANGED ltConn
       ELSE /\ ltConn' = [ltConn EXCEPT !.created = @ + 1]
            /\ lt' = [lt EXCEPT ![p] = [NoFrame EXCEPT !.pc = "ping",
                                                       !.call = ltConn.created + 1]]
    /\ UNCHANGED <<config, env, compacted, now, exceptLtConn, turn, calls>>

\* the ping returns: self._mongo_client = client
EnsureMongoPing(p) ==
    /\ lt[p].pc = "ping"
    /\ ltConn' = [ltConn EXCEPT !.client = lt[p].call]
    /\ lt' = [lt EXCEPT ![p].pc = "use"]
    /\ UNCHANGED <<config, env, compacted, now, nextTurn, exceptLtConn, pc, turn, calls>>

\* the operation reads self._mongo_client and runs its command on it
StoreUse(p) ==
    /\ lt[p].pc = "use"
    /\ Called(p, [op |-> "store_op", client |-> ltConn.client])
    /\ lt' = [lt EXCEPT ![p] = NoFrame]
    /\ pc' = [pc EXCEPT ![p] = "idle"]
    /\ UNCHANGED <<config, env, compacted, now, nextTurn, stores, turn>>

\* offload_messages, lines 33-37: a client is constructed in every call
OffloadMessagesEnter(p) ==
    /\ pc[p] = "idle"
    /\ nextTurn <= env.max_turns
    /\ nextTurn' = nextTurn + 1
    /\ ltConn' = [ltConn EXCEPT !.offload_created = @ + 1]
    /\ lt' = [lt EXCEPT ![p] = [NoFrame EXCEPT !.pc = "offload_insert",
                                               !.call = ltConn.offload_created + 1]]
    /\ pc' = [pc EXCEPT ![p] = "offload_messages"]
    /\ UNCHANGED <<config, env, compacted, now, exceptLtConn, turn, calls>>

\* lines 38-45: insert_one on the client of this call
OffloadMessagesInsert(p) ==
    /\ lt[p].pc = "offload_insert"
    /\ offloaded' = Append(offloaded,
          [user_id |-> "u1", session_id |-> "s1", messages |-> <<UserMsg(0)>>,
           message_count |-> 1, turn |-> 0])
    /\ Called(p, [op |-> "offload_messages", client |-> lt[p].call])
    /\ lt' = [lt EXCEPT ![p] = NoFrame]
    /\ pc' = [pc EXCEPT ![p] = "idle"]
    /\ UNCHANGED <<config, env, compacted, now, nextTurn, exceptOffloaded, turn>>

InitConnect ==
    /\ config = DefaultConfig
    /\ env = [faults |-> FALSE, max_turns |-> MaxConcTurns + 1,
              pending |-> {<<>>}, texts |-> {"m1"}, max_ticks |-> 0,
              agents |-> {}, cache_faults |-> FALSE, offloads |-> TRUE,
              ages |-> FALSE]
    /\ shortTerm = [s \in Sessions |-> NoRecord]
    /\ procStore = {}
    /\ cache = [k \in CacheKeys |-> NoEntry]
    /\ ltSearch = <<>>
    /\ now = 0
    /\ nextTurn = 1
    /\ offloaded = <<>>
    /\ ltDurable = <<>>
    /\ ltConn = [client |-> 0, created |-> 0, offload_created |-> 0]
    /\ episodes = <<>>
    /\ facts = <<>>
    /\ pc = [p \in Procs |-> "idle"]
    /\ turn = [p \in Procs |-> NoTurn]
    /\ calls = [p \in Procs |-> <<>>]
    /\ lt = [p \in Procs |-> NoFrame]
    /\ lastSave = [s \in Sessions |-> NoSave]
    /\ bld = [p \in Procs |-> NoBuild]
    /\ built = <<>>
    /\ ver = NoVersions
    /\ compacted = NoCompaction

NextConnect ==
    \E p \in Procs :
       \/ EnsureMongoEnter(p) \/ EnsureMongoPing(p) \/ StoreUse(p)
       \/ OffloadMessagesEnter(p) \/ OffloadMessagesInsert(p)

SpecConnect == InitConnect /\ [][NextConnect]_vars

\* the clients the operations of kind op have run on
ClientsUsed(op) ==
    UNION {{calls[p][i].client :
               i \in {j \in 1..Len(calls[p]) : calls[p][j].op = op}} :
           p \in Procs}

\* C32: whatever the interleaving, a store constructs at most one client
\* between construction and close, and every operation runs on that one
C32_AtMostOneClient ==
    /\ ltConn.created <= 1
    /\ ltConn.offload_created <= 1
    /\ Cardinality(ClientsUsed("store_op")) <= 1
    /\ Cardinality(ClientsUsed("offload_messages")) <= 1

\* what _ensure_mongo does guarantee: no client is constructed once one is
\* set, so at most one per coroutine that was in its first use before the
\* first ping returned
C32_NoClientAfterFirstSet ==
    [][/\ ltConn'.created <= Cardinality(Procs)
       /\ ltConn.client # 0 => ltConn'.created = ltConn.created]_vars

(***************************************************************************)
(* BaseSupervisorService.chat, with an agent and backends that may fail    *)
(***************************************************************************)
\* In this specification ver has one more field, steps: per coroutine, the
\* steps of chat that the current call has gone through, in order.
ChatStep(p, steps) == [ver EXCEPT !.steps[p] = @ \o steps]

\* line 116: chat is called and awaits ensure_connections
ChatEnter(p) ==
    /\ pc[p] \in {"idle", "chat_returned", "chat_raised", "raised", "b_raised"}
    /\ nextTurn <= env.max_turns
    /\ \E text \in env.texts :
          bld' = [bld EXCEPT ![p] = [NoBuild EXCEPT !.id = nextTurn,
                                                    !.text = text]]
    /\ nextTurn' = nextTurn + 1
    /\ ver' = [ver EXCEPT !.steps[p] = <<>>]
    /\ pc' = [pc EXCEPT ![p] = "ensure_connections"]
    /\ UNCHANGED <<config, env, compacted, now, shortTerm, offloaded, ltDurable,
                   ltSearch, ltConn, episodes, facts, procStore, cache,
                   lastSave, built, turn, calls, lt>>

\* lines 116-117: the connections are there and build is called; it runs
\* up to its first await
EnsureConnectionsOk(p) ==
    /\ pc[p] = "ensure_connections"
    /\ bld' = [bld EXCEPT ![p].after = Len(built),
                          ![p].need = ver.invalidated["u1"]]
    /\ ver' = ChatStep(p, <<"ensure_connections", "build">>)
    /\ pc' = [pc EXCEPT ![p] = "b_get_short_term"]
    /\ UNCHANGED <<config, env, compacted, now, nextTurn, shortTerm, offloaded,
                   ltDurable, ltSearch, ltConn, episodes, facts, procStore,
                   cache, lastSave, built, turn, calls, lt>>

\* MemoryManager.connect raises MemoryConnectionError: chat raises
EnsureConnectionsFail(p) ==
    /\ pc[p] = "ensure_connections"
    /\ env.faults
    /\ ver' = ChatStep(p, <<"ensure_connections">>)
    /\ pc' = [pc EXCEPT ![p] = "chat_raised"]
    /\ UNCHANGED <<config, env, compacted, now, nextTurn, shortTerm, offloaded,
                   ltDurable, ltSearch, ltConn, episodes, facts, procStore,
                   cache, lastSave, bld, built, turn, calls, lt>>

\* a chat that persists the turn although _run_agent raised
ChatRunAgentFailPersists(p) ==
    /\ pc[p] = "built"
    /\ env.faults
    /\ AfterTurnEnter(p, bld[p].id, bld[p].user, bld[p].session,
                      bld[p].text, bld[p].short_term, <<>>)
    /\ ver' = ChatStep(p, <<"run_agent_raised">>)
    /\ UNCHANGED <<config, env, compacted, now, nextTurn, shortTerm, offloaded,
                   ltDurable, ltSearch, ltConn, episodes, facts, procStore,
                   cache, lastSave, bld, built, lt>>

\* line 118, _run_agent raises: the exception leaves chat
ChatRunAgentFail(p) ==
    /\ pc[p] = "built"
    /\ env.faults
    /\ ver' = ChatStep(p, <<"run_agent_raised">>)
    /\ pc' = [pc EXCEPT ![p] = "chat_raised"]
    /\ UNCHANGED <<config, env, compacted, now, nextTurn, shortTerm, offloaded,
                   ltDurable, ltSearch, ltConn, episodes, facts, procStore,
                   cache, lastSave, bld, built, turn, calls, lt>>

\* lines 118-119: _run_agent returns, its tool has queued procedures, and
\* after_turn is entered with the short-term record the build returned
ChatRunAgentOk(p) ==
    /\ pc[p] = "built"
    /\ \E names \in env.pending :
          AfterTurnEnter(p, bld[p].id, bld[p].user, bld[p].session,
                         bld[p].text, bld[p].short_term,
                         PendingProcedures(names, bld[p].id))
    /\ ver' = ChatStep(p, <<"run_agent", "after_turn">>)
    /\ UNCHANGED <<config, env, compacted, now, nextTurn, shortTerm, offloaded,
                   ltDurable, ltSearch, ltConn, episodes, facts, procStore,
                   cache, lastSave, bld, built, lt>>

\* lines 120-131: after_turn returned; the hook runs, whatever it raises is
\* dropped, and chat returns
ChatAfterPersistHook(p) ==
    /\ pc[p] = "done"
    /\ ver' = ChatStep(p, <<"after_persist_hook">>)
    /\ pc' = [pc EXCEPT ![p] = "chat_returned"]
    /\ UNCHANGED <<config, env, compacted, now, nextTurn, shortTerm, offloaded,
                   ltDurable, ltSearch, ltConn, episodes, facts, procStore,
                   cache, lastSave, bld, built, turn, calls, lt>>

InitSupervisor ==
    /\ config = DefaultConfig
    /\ env = [faults |-> TRUE, max_turns |-> Cardinality(Procs),
              pending |-> {<<>>, <<"n1">>},
              texts |-> {"m1"}, max_ticks |-> 0, agents |-> {},
              cache_faults |-> FALSE, offloads |-> TRUE, ages |-> FALSE]
    /\ \E n \in {0, MaxPre - 2} :
          shortTerm = [s \in Sessions |->
                          IF s = "s1" /\ n > 0 THEN OldRecord(n) ELSE NoRecord]
    /\ procStore = {OldProc}
    /\ cache \in {[k \in CacheKeys |-> NoEntry], LeftByEarlierBuild}
    /\ ltSearch = <<OldMemory>>
    /\ now = 0
    /\ nextTurn = 1
    /\ offloaded = <<>>
    /\ ltDurable = <<>>
    /\ ltConn = [mongo |-> FALSE, mem0 |-> FALSE]
    /\ episodes = <<>>
    /\ facts = <<>>
    /\ pc = [p \in Procs |-> "idle"]
    /\ turn = [p \in Procs |-> NoTurn]
    /\ calls = [p \in Procs |-> <<>>]
    /\ lt = [p \in Procs |-> NoFrame]
    /\ lastSave = [s \in Sessions |-> NoSave]
    /\ bld = [p \in Procs |-> NoBuild]
    /\ built = <<>>
    /\ ver = [saved |-> [u \in Users |-> 0],
              invalidated |-> [u \in Users |-> 0],
              mine |-> [p \in Procs |-> 0],
              steps |-> [p \in Procs |-> <<>>]]
    /\ compacted = NoCompaction

NextSupervisor ==
    \/ ChatEnter(1)
    \/ EnsureConnectionsOk(1) \/ EnsureConnectionsFail(1)
    \/ Build(1) \/ BuildGetRelevantFail(1)
    \/ ChatRunAgentOk(1) \/ ChatRunAgentFail(1)
    \/ AfterTurn(1) \/ LongTermSave(1)
    \/ ChatAfterPersistHook(1)

SpecSupervisor == InitSupervisor /\ [][NextSupervisor]_vars

\* the steps of a chat in which nothing raises
ChatOrder ==
    <<"ensure_connections", "build", "run_agent", "after_turn",
      "after_persist_hook">>

IsPrefix(a, b) == Len(a) <= Len(b) /\ a = SubSeq(b, 1, Len(a))

\* some memory tier holds something written by the after_turn of turn t
WrittenFor(t) ==
    \/ \E s \in Sessions : lastSave[s].turn = t
    \/ ChunksOf(t) # {}
    \/ \E i \in 1..Len(ltDurable) : ltDurable[i].call = t
    \/ \E i \in 1..Len(ltSearch) : ltSearch[i].call = t
    \/ \E i \in 1..Len(episodes) : episodes[i].intent = t
    \/ \E i \in 1..Len(facts) : facts[i].text[2] = t
    \/ \E d \in procStore : d.steps[1] = t

\* C33: chat goes through ensure connections, build, run agent, persist in
\* that order; when _run_agent raises, after_turn is not entered and no
\* memory tier is written for the turn; the after-persist hook runs only
\* after an after_turn that returned without raising
C33_ChatOrder ==
    \A p \in Procs :
        LET st == ver.steps[p]
            t == bld[p].id
        IN  /\ \/ IsPrefix(st, ChatOrder)
               \/ st = <<"ensure_connections", "build", "run_agent_raised">>
            /\ (st # <<>> /\ st[Len(st)] = "run_agent_raised") =>
                  /\ pc[p] = "chat_raised"
                  /\ turn[p].id # t
                  /\ ~WrittenFor(t)
            /\ (st # <<>> /\ st[Len(st)] = "build") =>
                  /\ turn[p].id # t
                  /\ ~WrittenFor(t)
            /\ (t > 0 /\ WrittenFor(t)) =>
                  /\ IsPrefix(SubSeq(ChatOrder, 1, 4), st)
                  /\ turn[p].id = t
            /\ (st # <<>> /\ st[Len(st)] = "after_persist_hook") =>
                  /\ pc[p] = "chat_returned"
                  /\ turn[p].id = t
                  /\ ~HasCall(p, "save_short_term", FALSE)
                  /\ ~HasCall(p, "save_long_term", FALSE)
                  /\ HasCall(p, "save_long_term", TRUE)

\* the agent raised in the second chat of a session whose first chat was
\* persisted: the stores hold the first turn and nothing of the second
C33_Witness ==
    /\ pc[1] = "chat_raised"
    /\ ver.steps[1] = <<"ensure_connections", "build", "run_agent_raised">>
    /\ bld[1].id = 2
    /\ lastSave["s1"].turn = 1
    /\ \E i \in 1..Len(ltDurable) : ltDurable[i].call = 1
    /\ ~WrittenFor(2)

(***************************************************************************)
(* Builds under a configuration that disables caching                      *)
(***************************************************************************)
\* config.cache_enabled is False; the pipeline was constructed with or
\* without a cache object, and the cache is empty or holds what a build
\* left before caching was disabled
InitCacheOff ==
    /\ \E present \in BOOLEAN :
          config = [DefaultConfig EXCEPT !.cache_enabled = FALSE,
                                         !.cache_present = present]
    /\ env = [faults |-> FALSE, max_turns |-> Cardinality(Procs),
              pending |-> {<<>>}, texts |-> Texts,
              max_ticks |-> Cardinality(Procs) - 1, agents |-> {},
              cache_faults |-> TRUE, offloads |-> TRUE, ages |-> FALSE]
    /\ shortTerm = [s \in Sessions |-> NoRecord]
    /\ ltSearch = <<OldMemory>>
    /\ procStore = {OldProc}
    /\ cache \in {[k \in CacheKeys |-> NoEntry], LeftByEarlierBuild}
    /\ InitRest

SpecCacheOff == InitCacheOff /\ [][NextBuild]_vars

\* C34: with cache_enabled = false no build reads or writes an "lt" entry
\* of the cache, also when the pipeline has a cache object: the entries are
\* those that were there before, and every build that returned has called
\* get_relevant_history once
C34_DisabledCacheUnused ==
    ~config.cache_enabled =>
       /\ \A k \in CacheKeys : cache[k].present => cache[k].writer = 0
       /\ \A i \in 1..Len(built) :
             built[i].searches = 1 /\ built[i].lt_seen = 0

\* what decides in build is the cache object alone: without one, no entry
\* is read or written and every build searches
C34_NoCacheObjectNoUse ==
    ~config.cache_present =>
       /\ \A k \in CacheKeys : cache[k].present => cache[k].writer = 0
       /\ \A i \in 1..Len(built) : built[i].searches = 1

(***************************************************************************)
(* Builds whose procedure part raises                                      *)
(***************************************************************************)
\* list_procedures raises and the exception leaves build
BuildListProceduresRaisePropagates(p) ==
    /\ pc[p] = "b_list_procedures"
    /\ env.faults
    /\ bld' = [bld EXCEPT ![p].proc_failure = "list_procedures",
                          ![p].error = "MemoryReadError"]
    /\ pc' = [pc EXCEPT ![p] = "b_raised"]
    /\ UNCHANGED <<config, env, compacted, now, nextTurn, shortTerm, offloaded,
                   ltDurable, ltSearch, ltConn, episodes, facts, procStore,
                   cache, lastSave, built, ver, turn, calls, lt>>

\* lines 73-77 and 80-81: list_procedures raises; procedures = []
BuildListProceduresRaise(p) ==
    /\ pc[p] = "b_list_procedures"
    /\ env.faults
    /\ BuildReturn(p, [bld[p] EXCEPT !.procedures = <<>>,
                                     !.proc_failure = "list_procedures"])
    /\ UNCHANGED <<config, env, compacted, now, nextTurn, shortTerm, offloaded,
                   ltDurable, ltSearch, ltConn, episodes, facts, procStore,
                   cache, lastSave, ver, turn, calls, lt>>

\* lines 69 and 80-81, with a cache object whose get raises
BuildCacheGetProcRaise(p) ==
    /\ pc[p] = "b_cache_get_proc"
    /\ env.faults
    /\ BuildReturn(p, [bld[p] EXCEPT !.procedures = <<>>,
                                     !.proc_failure = "cache_get"])
    /\ UNCHANGED <<config, env, compacted, now, nextTurn, shortTerm, offloaded,
                   ltDurable, ltSearch, ltConn, episodes, facts, procStore,
                   cache, lastSave, ver, turn, calls, lt>>

\* lines 79-81, with a cache object whose set raises: the list that was
\* read is dropped
BuildCacheSetProcRaise(p) ==
    /\ pc[p] = "b_cache_set_proc"
    /\ env.faults
    /\ BuildReturn(p, [bld[p] EXCEPT !.procedures = <<>>,
                                     !.proc_failure = "cache_set"])
    /\ UNCHANGED <<config, env, compacted, now, nextTurn, shortTerm, offloaded,
                   ltDurable, ltSearch, ltConn, episodes, facts, procStore,
                   cache, lastSave, ver, turn, calls, lt>>

\* builds over unchanged stores, with or without a cache object
InitProcFail ==
    /\ \E filter \in BOOLEAN : \E present \in BOOLEAN :
          config = [DefaultConfig EXCEPT !.filter_enabled = filter,
                                         !.cache_present = present]
    /\ env = [faults |-> TRUE, max_turns |-> MaxTurns,
              pending |-> {<<>>}, texts |-> {"m1"},
              max_ticks |-> 0, agents |-> {},
              cache_faults |-> FALSE, offloads |-> TRUE, ages |-> FALSE]
    /\ \E m \in StoredContexts :
          /\ shortTerm = [s \in Sessions |->
                             IF s = "s1" THEN m.short_term ELSE NoRecord]
          /\ ltSearch = m.long_term
          /\ procStore = m.procedures
          /\ cache \in {[k \in CacheKeys |-> NoEntry]} \cup
                (IF m.procedures = {} THEN {} ELSE {LeftByEarlierBuild})
    /\ InitRest

NextProcFail ==
    \/ BuildStart(1) \/ Build(1) \/ DirectBuildEnd(1)
    \/ BuildListProceduresRaise(1)
    \/ BuildCacheGetProcRaise(1) \/ BuildCacheSetProcRaise(1)

SpecProcFail == InitProcFail /\ [][NextProcFail]_vars

\* C35: when the procedure cache read or write or list_procedures raises,
\* build does not raise: it returns no procedures, the short-term record it
\* read, the long-term items it resolved, and the message assembled from
\* these two
C35_ProcedureFailureIsEmpty ==
    /\ \A p \in Procs : pc[p] # "b_raised" /\ bld[p].error = "none"
    /\ \A p \in Procs :
          bld[p].proc_failure # "none" => pc[p] \in {"built", "idle"}
    /\ \A i \in 1..Len(built) :
          built[i].proc_failure # "none" =>
             /\ built[i].procedures = <<>>
             /\ built[i].short_term = ShortTermGet(built[i].session)
             /\ built[i].long_term =
                   FilterLongTerm(GetRelevant(built[i].user,
                                              config.long_term_max_items))
             /\ built[i].user_message =
                   AssembleUserMessage(
                      ContextParts(FilterShortTerm(built[i].short_term.messages),
                                   built[i].long_term, <<>>),
                      built[i].text)

\* list_procedures raised for a user who has a procedure, a memory and a
\* session with messages: the build returned the last two and no procedure
C35_Witness ==
    \E i \in 1..Len(built) :
       /\ built[i].proc_failure = "list_procedures"
       /\ procStore # {}
       /\ built[i].procedures = <<>>
       /\ built[i].long_term # <<>>
       /\ built[i].short_term.messages # <<>>
       /\ Occurs(RelevantHistoryLabel, built[i].user_message)
       /\ ~Occurs(SavedProceduresLabel, built[i].user_message)

(***************************************************************************)
(* Many serialized turns of one session: what the archive and the record   *)
(* hold together                                                           *)
(***************************************************************************)
\* offloading on, threshold and keep_recent from 0 to just above the cap of
\* 20, the store's max_messages at or above the cap; env.pre is the length of the
\* record an earlier save left
InitArchive ==
    /\ \E thr \in {0, MaxSmallCfg, DefaultOffloadThreshold, ShortTermSaveCap,
                   ShortTermSaveCap + 1} :
       \E keep \in {1, MaxSmallCfg, DefaultOffloadKeepRecent, ShortTermSaveCap,
                    ShortTermSaveCap + 1} :
       \E mm \in {DefaultMaxMessages, DefaultMaxMessages + 1} :
          config = [DefaultConfig EXCEPT !.offload_message_threshold = thr,
                                         !.offload_keep_recent = keep,
                                         !.max_messages = mm]
    /\ \E n \in {0, DefaultOffloadThreshold - 1, DefaultMaxMessages} :
          /\ env = [faults |-> FALSE, max_turns |-> MaxTurns + 2,
                    pending |-> {<<>>}, texts |-> {"m1"}, max_ticks |-> 0,
                    agents |-> Procs, cache_faults |-> FALSE,
                    offloads |-> TRUE, ages |-> FALSE, pre |-> n]
          /\ shortTerm = [s \in Sessions |->
                            IF s = "s1" /\ n > 0 THEN OldRecord(n) ELSE NoRecord]
    /\ procStore = {}
    /\ cache = [k \in CacheKeys |-> NoEntry]
    /\ ltSearch = <<>>
    /\ InitRest

SpecArchive == InitArchive /\ [][NextOffload]_vars

\* the messages of the first k turns, in order
RECURSIVE TurnMessages(_)
TurnMessages(k) ==
    IF k = 0 THEN <<>>
    ELSE TurnMessages(k - 1) \o <<UserMsg(k), AsstMsg(k)>>

\* the messages of the first n offload chunks of session s, in creation
\* order
RECURSIVE ArchivedMessages(_, _)
ArchivedMessages(s, n) ==
    IF n = 0 THEN <<>>
    ELSE ArchivedMessages(s, n - 1)
            \o (IF offloaded[n].session_id = s
                THEN offloaded[n].messages ELSE <<>>)

\* C36: with offloading on, 1 <= offload_keep_recent <= 20, threshold <= 20
\* and max_messages >= 20, after every completed turn of a session whose
\* turns are serialized the offload chunks in creation order followed by
\* the short-term messages are the whole message sequence of the session
C36_NothingLostNothingTwice ==
    (/\ pc[1] \in {"idle", "done"}
     /\ config.offload_enabled
     /\ 1 <= config.offload_keep_recent
     /\ config.offload_keep_recent <= ShortTermSaveCap
     /\ config.offload_message_threshold <= ShortTermSaveCap
     /\ config.max_messages >= ShortTermSaveCap) =>
        ArchivedMessages("s1", Len(offloaded)) \o shortTerm["s1"].messages
           = OldMessages(env.pre) \o TurnMessages(nextTurn - 1)

\* four turns are done, more than one of them archived a chunk, and the
\* record holds fewer messages than the session has
C36_Witness ==
    /\ pc[1] = "done"
    /\ nextTurn - 1 >= 4
    /\ Len(offloaded) >= 2
    /\ env.pre > 0
    /\ Len(shortTerm["s1"].messages) < env.pre + 2 * (nextTurn - 1)
    /\ ArchivedMessages("s1", Len(offloaded)) \o shortTerm["s1"].messages
          = OldMessages(env.pre) \o TurnMessages(nextTurn - 1)

\* after_turn of coroutine 1 has completed and the configuration offloads
\* with 1 <= offload_keep_recent <= offload_message_threshold
TurnDoneKeepWithinThreshold ==
    /\ pc[1] = "done"
    /\ config.offload_enabled
    /\ 1 <= config.offload_keep_recent
    /\ config.offload_keep_recent <= config.offload_message_threshold

\* C37 as stated: with offloading on and 1 <= offload_keep_recent <=
\* offload_message_threshold, after every completed after_turn the record
\* of the session holds at most min(offload_message_threshold, 20) messages
C37_AtMostThresholdOrCap ==
    TurnDoneKeepWithinThreshold =>
       Len(shortTerm["s1"].messages)
          <= Min(config.offload_message_threshold, ShortTermSaveCap)

\* C37, amended: the same with offload_keep_recent <= 20 as well; without
\* it the bound is the larger of offload_keep_recent and
\* min(offload_message_threshold, 20)
C37_AtMostThresholdOrCapKeepCapped ==
    TurnDoneKeepWithinThreshold =>
       /\ config.offload_keep_recent <= ShortTermSaveCap =>
             Len(shortTerm["s1"].messages)
                <= Min(config.offload_message_threshold, ShortTermSaveCap)
       /\ Len(shortTerm["s1"].messages)
             <= Max(config.offload_keep_recent,
                    Min(config.offload_message_threshold, ShortTermSaveCap))

\* a turn that offloaded has left exactly offload_keep_recent messages,
\* fewer than the threshold and than the cap
C37_Witness ==
    /\ TurnDoneKeepWithinThreshold
    /\ config.offload_keep_recent = DefaultOffloadKeepRecent
    /\ config.offload_message_threshold = DefaultOffloadThreshold
    /\ turn[1].id = 1
    /\ ChunksOf(1) # {}
    /\ Len(shortTerm["s1"].messages) = DefaultOffloadKeepRecent

(***************************************************************************)
(* Builds for a short and for a long message                               *)
(***************************************************************************)
\* no cache object; compaction off, on with the default limits, or on with
\* limits a small context exceeds; the message is "m1" or 200 characters
InitVerbatim ==
    /\ \E filter \in BOOLEAN :
       \E c \in CompactionSettings \cup
                  {[enabled |-> TRUE, per_part |-> s.per_part,
                    total |-> s.total] : s \in CutSettings} :
          config = [DefaultConfig EXCEPT
                       !.filter_enabled = filter,
                       !.cache_present = FALSE,
                       !.compaction_enabled = c.enabled,
                       !.compaction_max_chars_per_part = c.per_part,
                       !.compaction_max_total_chars = c.total]
    /\ env = [faults |-> FALSE, max_turns |-> MaxTurns,
              pending |-> {<<>>}, texts |-> {"m1", "long"},
              max_ticks |-> 0, agents |-> {},
              cache_faults |-> FALSE, offloads |-> TRUE, ages |-> FALSE]
    /\ \E m \in StoredContexts \cup CutContexts :
          /\ shortTerm = [s \in Sessions |->
                             IF s = "s1" THEN m.short_term ELSE NoRecord]
          /\ ltSearch = m.long_term
          /\ procStore = m.procedures
    /\ cache = [k \in CacheKeys |-> NoEntry]
    /\ InitRest

NextVerbatim ==
    \/ BuildStart(1)
    \/ BuildGetShortTerm(1) \/ BuildGetRelevant(1) \/ BuildListProcedures(1)
    \/ DirectBuildEnd(1)

SpecVerbatim == InitVerbatim /\ [][NextVerbatim]_vars

\* C38: every build with a non-empty context returns a user_message that
\* ends with the marker "[Current user message] " and the caller's message,
\* whole and unchanged, whatever the filter and the compaction cut
C38_MessageVerbatim ==
    \A i \in 1..Len(built) :
       (\/ built[i].short_term.messages # <<>>
        \/ built[i].long_term # <<>>
        \/ built[i].procedures # <<>>) =>
          /\ EndsWith(built[i].user_message,
                      CurrentUserMessageLabel \o Chars(built[i].text))
          /\ Len(built[i].user_message)
                >= Len(CurrentUserMessageLabel) + Len(Chars(built[i].text))

\* a build whose context was cut to the total limit returned the marker
\* and the 200-character message, and so a message above the limit
C38_Witness ==
    \E i \in 1..Len(built) :
       /\ built[i].text = "long"
       /\ ContextWasCut(built[i])
       /\ EndsWith(built[i].user_message,
                   CurrentUserMessageLabel \o Chars("long"))
       /\ Len(built[i].user_message) > config.compaction_max_total_chars

(***************************************************************************)
(* Two users: A only builds, B builds and persists turns                   *)
(***************************************************************************)
\* line 45: build(user_id, session_id, message) is called for user u and
\* session s; it runs up to its first await
BuildStartFor(p, u, s) ==
    /\ pc[p] \in {"idle", "done", "raised"}
    /\ nextTurn <= env.max_turns
    /\ \E text \in env.texts :
          bld' = [bld EXCEPT ![p] =
             [NoBuild EXCEPT !.id = nextTurn, !.text = text,
                             !.user = u, !.session = s,
                             !.after = Len(built),
                             !.need = ver.invalidated[u]]]
    /\ nextTurn' = nextTurn + 1
    /\ pc' = [pc EXCEPT ![p] = "b_get_short_term"]
    /\ UNCHANGED <<config, env, compacted, now, shortTerm, offloaded,
                   ltDurable, ltSearch, ltConn, episodes, facts, procStore,
                   cache, lastSave, built, ver, turn, calls, lt>>

\* user A (u1, session s1) has a memory and a procedure, or nothing; user B
\* (u2, session s2) starts with nothing; both send the same message text;
\* env.a_lt and env.a_proc are what the stores hold for A
InitUsers ==
    /\ \E present \in BOOLEAN :
          config = [DefaultConfig EXCEPT !.cache_present = present]
    /\ \E has \in BOOLEAN :
          /\ env = [faults |-> FALSE, max_turns |-> Cardinality(Procs) + 1,
                    pending |-> {<<"n1">>}, texts |-> {"m1"},
                    max_ticks |-> 0, agents |-> {2},
                    cache_faults |-> FALSE, offloads |-> TRUE, ages |-> FALSE,
                    a_lt |-> IF has THEN <<Mem0ResultToItem(OldMemory)>>
                             ELSE <<>>,
                    a_proc |-> IF has THEN <<OldProc>> ELSE <<>>]
          /\ ltSearch = IF has THEN <<OldMemory>> ELSE <<>>
          /\ procStore = IF has THEN {OldProc} ELSE {}
    /\ shortTerm = [s \in Sessions |-> NoRecord]
    /\ cache = [k \in CacheKeys |-> NoEntry]
    /\ InitRest

NextUsers ==
    \/ BuildStartFor(1, "u1", "s1") \/ Build(1) \/ DirectBuildEnd(1)
    \/ BuildStartFor(2, "u2", "s2") \/ Build(2) \/ RunAgent(2)
    \/ SaveShortTermOk(2) \/ SaveLongTermCall(2) \/ SaveLongTermReturn(2)
    \/ AddEpisodeOk(2) \/ AddFactOk(2)
    \/ LongTermSaveOk(2) \/ AfterTurnProceduresOk(2)

SpecUsers == InitUsers /\ [][NextUsers]_vars

\* _key, line 38, on characters: "ctx:" prefix ":" and the parts joined
\* by ":"
KeyString(prefix, parts) ==
    <<99, 116, 120, 58>> \o prefix \o <<58>> \o Join(<<58>>, parts)

\* user ids with and without ":" and two message hashes, as characters
KeyUserIds == {<<117>>, <<117, 58>>, <<117, 58, 118>>, <<58, 117>>,
               <<112, 114, 111, 99>>, <<108, 116>>}
KeyHashes == {[i \in 1..MessageHashLength |-> 97],
              [i \in 1..MessageHashLength |-> 98]}
KeyArguments ==
    {<<<<108, 116>>, <<u, h>>>> : u \in KeyUserIds, h \in KeyHashes}
       \cup {<<<<112, 114, 111, 99>>, <<u>>>> : u \in KeyUserIds}

\* C39: what build returns to A as long-term items and procedures is what
\* the stores hold for A, whatever builds and turns of B, with the same
\* message text, run before or in between; the entries of A in the stores
\* stay what they were, and no two (prefix, user, hash) share a cache key
C39_UsersDoNotInterfere ==
    /\ \A i \in 1..Len(built) :
          built[i].user = "u1" =>
             /\ built[i].long_term = env.a_lt
             /\ built[i].procedures = env.a_proc
    /\ SelectSeq(ltSearch, LAMBDA e : e.user_id = "u1")
          = (IF env.a_lt = <<>> THEN <<>> ELSE <<OldMemory>>)
    /\ {d \in procStore : d.user_id = "u1"}
          = {env.a_proc[i] : i \in 1..Len(env.a_proc)}
    /\ \A a, b \in KeyArguments :
          KeyString(a[1], a[2]) = KeyString(b[1], b[2]) => a = b

\* B has run a turn that saved a procedure and a memory, a build of B has
\* returned them, and a later build of A returned A's own
C39_Witness ==
    \E i, j \in 1..Len(built) :
       /\ i < j
       /\ built[i].user = "u2"
       /\ built[i].long_term # <<>> /\ built[i].procedures # <<>>
       /\ built[j].user = "u1"
       /\ built[j].long_term = env.a_lt /\ env.a_lt # <<>>
       /\ built[j].procedures = env.a_proc
       /\ config.cache_present

(***************************************************************************)
(* CircuitBreaker (app/utils/circuit_breaker.py)                           *)
(***************************************************************************)
\* line 25: last_failure_time is None until a failure is recorded
NoFailureTime == -1

\* lines 24-26: the fields after __init__
NewBreaker == [state |-> "closed", failures |-> 0,
               last_failure_time |-> NoFailureTime]

\* a recovery that keeps the failure count
MaybeRecoverKeepsFailures(b, t) ==
    IF b.state # "open" \/ b.last_failure_time = NoFailureTime
    THEN b
    ELSE IF t - b.last_failure_time >= config.recovery_seconds
         THEN [b EXCEPT !.state = "half_open"]
         ELSE b

\* _maybe_recover, lines 28-33, at monotonic time t
MaybeRecover(b, t) ==
    IF b.state # "open" \/ b.last_failure_time = NoFailureTime
    THEN b
    ELSE IF t - b.last_failure_time >= config.recovery_seconds
         THEN [b EXCEPT !.state = "half_open", !.failures = 0]
         ELSE b

\* record_success, lines 35-38
RecordSuccess(b) ==
    [b EXCEPT !.state = IF b.state = "half_open" THEN "closed" ELSE @,
              !.failures = 0]

\* record_failure, lines 40-44
RecordFailure(b, t) ==
    LET n == b.failures + 1
    IN  [state |-> IF n >= config.failure_threshold THEN "open" ELSE b.state,
         failures |-> n, last_failure_time |-> t]

\* the breaker is in ver; calls[1] is the list of calls made on it, each
\* with the fields before and after, whether fn was invoked, and the result
BreakerCall(op, after, invoked, result) ==
    /\ nextTurn <= env.max_turns
    /\ nextTurn' = nextTurn + 1
    /\ ver' = after
    /\ Called(1, [op |-> op, at |-> now, before |-> ver, after |-> after,
                  invoked |-> invoked, result |-> result])
    /\ UNCHANGED <<config, env, compacted, now, shortTerm, offloaded,
                   ltDurable, ltSearch, ltConn, episodes, facts, procStore,
                   cache, lastSave, bld, built, pc, turn, lt>>

\* can_execute, lines 46-48
CanExecute ==
    LET b == MaybeRecover(ver, now)
    IN  \E result \in {"true", "false"} :
           /\ (result = "true") <=> b.state \in {"closed", "half_open"}
           /\ BreakerCall("can_execute", b, FALSE, result)

\* call_sync, lines 52-53: the breaker is open, RuntimeError
CallSyncOpen ==
    LET b == MaybeRecover(ver, now)
    IN  /\ b.state \notin {"closed", "half_open"}
        /\ BreakerCall("call_sync", b, FALSE, "rejected")

\* call_sync, lines 54-57: fn returns
CallSyncReturns ==
    LET b == MaybeRecover(ver, now)
    IN  /\ b.state \in {"closed", "half_open"}
        /\ BreakerCall("call_sync", RecordSuccess(b), TRUE, "returned")

\* call_sync, lines 54-55 and 58-60: fn raises
CallSyncRaises ==
    LET b == MaybeRecover(ver, now)
    IN  /\ b.state \in {"closed", "half_open"}
        /\ BreakerCall("call_sync", RecordFailure(b, now), TRUE, "raised")

\* lines 22-23: thresholds 1..MaxSmallCfg, a cooldown of one or two ticks
InitBreaker ==
    /\ \E thr \in 1..MaxSmallCfg, rec \in {TickSeconds, 2 * TickSeconds} :
          config = [failure_threshold |-> thr, recovery_seconds |-> rec]
    /\ env = [faults |-> TRUE, max_turns |-> MaxSmallCfg + 2,
              pending |-> {<<>>}, texts |-> {"m1"}, max_ticks |-> MaxTicks - 1,
              agents |-> {}, cache_faults |-> FALSE, offloads |-> FALSE,
              ages |-> FALSE]
    /\ shortTerm = [s \in Sessions |-> NoRecord]
    /\ procStore = {}
    /\ cache = [k \in CacheKeys |-> NoEntry]
    /\ ltSearch = <<>>
    /\ now = 0
    /\ nextTurn = 1
    /\ offloaded = <<>>
    /\ ltDurable = <<>>
    /\ ltConn = [mongo |-> FALSE, mem0 |-> FALSE]
    /\ episodes = <<>>
    /\ facts = <<>>
    /\ pc = [p \in Procs |-> "idle"]
    /\ turn = [p \in Procs |-> NoTurn]
    /\ calls = [p \in Procs |-> <<>>]
    /\ lt = [p \in Procs |-> NoFrame]
    /\ lastSave = [s \in Sessions |-> NoSave]
    /\ bld = [p \in Procs |-> NoBuild]
    /\ built = <<>>
    /\ ver = NewBreaker
    /\ compacted = NoCompaction

NextBreaker ==
    \/ CanExecute \/ CallSyncOpen \/ CallSyncReturns \/ CallSyncRaises
    \/ Tick

SpecBreaker == InitBreaker /\ [][NextBreaker]_vars

\* call i found the breaker open with the cooldown over
CooldownOver(i) ==
    LET c == calls[1][i]
    IN  /\ c.before.state = "open"
        /\ c.at - c.before.last_failure_time >= config.recovery_seconds

\* the failures recorded by calls j..i with no success and no reset among
\* them, counted backwards from call i
RECURSIVE FailuresRecorded(_)
FailuresRecorded(i) ==
    IF i = 0 THEN 0
    ELSE LET c == calls[1][i]
         IN  IF c.result = "returned" THEN 0
             ELSE IF CooldownOver(i)
                  THEN (IF c.result = "raised" THEN 1 ELSE 0)
                  ELSE FailuresRecorded(i - 1)
                          + (IF c.result = "raised" THEN 1 ELSE 0)

\* C40: the breaker is open after a failure exactly when the failures
\* recorded since the last success or reset have reached failure_threshold;
\* a call_sync that finds it open before the cooldown is over raises
\* without invoking fn; one that finds it open after the cooldown goes on
\* from half_open with a count of zero; from half_open a success closes it
\* and a failure opens it only when the count reaches the threshold
C40_BreakerStates ==
    \A i \in 1..Len(calls[1]) :
       LET c == calls[1][i]
           half == c.before.state = "half_open" \/ CooldownOver(i)
       IN  /\ c.result = "raised" =>
                /\ c.after.state = "open"
                      <=> FailuresRecorded(i) >= config.failure_threshold
                /\ c.after.failures = FailuresRecorded(i)
           /\ (c.op = "call_sync" /\ c.before.state = "open"
                  /\ ~CooldownOver(i)) =>
                /\ c.result = "rejected" /\ ~c.invoked
                /\ c.after = c.before
           /\ c.result = "rejected" => ~c.invoked
           /\ (c.op = "can_execute" /\ CooldownOver(i)) =>
                /\ c.after.state = "half_open" /\ c.after.failures = 0
                /\ c.result = "true"
           /\ (c.op = "call_sync" /\ half) =>
                /\ c.invoked
                /\ c.result = "returned" =>
                      c.after.state = "closed" /\ c.after.failures = 0
                /\ (c.result = "raised" /\ CooldownOver(i)) =>
                      /\ c.after.failures = 1
                      /\ c.after.state = "open"
                            <=> config.failure_threshold <= 1
                /\ (c.result = "raised" /\ c.before.state = "half_open") =>
                      c.after.state =
                         IF c.before.failures + 1 >= config.failure_threshold
                         THEN "open" ELSE "half_open"

\* with a threshold above one the breaker opened, a call was rejected, the
\* cooldown passed, one failed probe left it half open and a second failed
\* probe opened it again
C40_Witness ==
    /\ config.failure_threshold > 1
    /\ \E i, j, k \in 1..Len(calls[1]) :
          /\ i < j /\ j < k
          /\ calls[1][i].result = "rejected"
          /\ calls[1][j].result = "raised" /\ CooldownOver(j)
          /\ calls[1][j].after.state = "half_open"
          /\ calls[1][k].result = "raised"
          /\ calls[1][k].before.state = "half_open"
          /\ calls[1][k].after.state = "open"

====
